---- MODULE Spec2Model ----
(***************************************************************************)
(* Model of the permit automation of ericbuehl/paseporfavor:               *)
(*   src/main.py  SantaMonicaPermitAutomation (session client, form        *)
(*                parsing, captcha solving, form submission, download)     *)
(*   src/app.py   generate_permits_stream (the workflow generator),        *)
(*                save_and_print_pdf, stream_progress.event_generator      *)
(*                                                                         *)
(* An HTML document is a record of what BeautifulSoup finds in it: its     *)
(* forms (with their elements and attributes), its img and a elements and  *)
(* the phrases its text contains.  An attribute that is absent is NoAttr   *)
(* (a string attribute) or None (a URL attribute).                         *)
(* A URL reference is a record [host, path, q, rooted]: host is "" for a   *)
(* relative reference, q is the query part, rooted says that the path      *)
(* starts with "/".                                                        *)
(***************************************************************************)
EXTENDS Integers, Sequences, FiniteSets, TLC

VARIABLES
    pc,              \* position of generate_permits_stream / event_generator
    events,          \* the Server-Sent Events emitted so far, in order
    exc,             \* the exception propagating, or NoExc
    cause,           \* the first exception the workflow body raised, or NoExc
    dry_run,         \* settings.dry_run
    auto_print,      \* the auto_print parameter of the run
    portal,          \* which initial page the portal serves in this run
    client,          \* automation.client: its state ("none", "open", "closed"), which
                     \* AsyncClient it is (id) and the cookies in its jar
    closes,          \* for each aclose() call, the number of events emitted before it
    requests,        \* the requests issued through automation.client, in order
    fetches,         \* number of initial-form page loads so far
    form_data,       \* result of the latest fetch_initial_form()
    captcha_attempt, \* the loop counter of the CAPTCHA loop
    solve_calls,     \* number of calls of download_and_solve_captcha
    ocr,             \* the texts download_and_solve_captcha returned, in order
    captcha_text,    \* the text of the current attempt
    result,          \* the authentication response, or None
    next_form,       \* parse_next_form(result['html'])
    permit_result,   \* response to the details submission
    confirm_form,    \* parse_next_form(permit_result['html'])
    final_result,    \* response to the final submission
    pdf_links,       \* links extracted from final_result
    pdf_bytes,       \* the downloaded document
    temp_files,      \* names of the files named in the run's result
    print_calls,     \* number of automation.print_pdf calls
    print_success,   \* the value print_pdf returned
    access_token,    \* automation._access_token
    token_expiry,    \* automation._token_expiry
    now,             \* the clock (seconds)
    exchanges,       \* number of requests to the token endpoint
    call,            \* the latest call of a pure function, for the function specifications
    consumer,        \* the consumer of the event stream: whether it is gone and, if so,
                     \* the stage that was in flight and the calls issued until then
    tmp,             \* names of the files that exist in /tmp
    tasks,           \* the cleanup tasks handed to the event loop
    server           \* the server process serving two /stream requests at once: its
                     \* automation objects, their clients, each run's position and
                     \* the requests sent

vars == <<pc, events, exc, cause, dry_run, auto_print, portal, client, closes,
          requests, fetches, form_data, captcha_attempt, solve_calls, ocr, captcha_text,
          result, next_form, permit_result, confirm_form, final_result,
          pdf_links, pdf_bytes, temp_files, print_calls, print_success,
          access_token, token_expiry, now, exchanges, call, consumer, tmp, tasks, server>>

\* Python's None where a record (a URL, a response, a parsed form) is expected
None == [none |-> TRUE]
\* Python's None where a string is expected (an attribute that is absent)
NoAttr == "NoAttr"
NoExc == "NoExc"

(***************************************************************************)
(* Bounds of the model                                                     *)
(***************************************************************************)
\* longest element list of a form drawn for the function specifications
MaxElems == 2
\* the clock of the resolver's specification stops here (seconds)
MaxClock == 4200
\* most calls of _get_access_token on one resolver
MaxCalls == 3

(***************************************************************************)
(* Program constants                                                       *)
(***************************************************************************)
max_captcha_attempts == 3
\* zip_code[:5]
ZipPrefixLen == 5
\* len(captcha_text) != 5
CaptchaLen == 5
\* timedelta(minutes=5), in seconds
GraceSeconds == 300
\* token_data.get('expires_in', 3600)
DefaultExpiresIn == 3600

BASE_URL == "https://wmq.etimspayments.com"
FORM_URL == [host |-> BASE_URL, path |-> "/pbw/include/santamonica/rppguestinput.jsp",
             q |-> "", rooted |-> TRUE]
TEST_PDF_URL == [host |-> "https://upload.wikimedia.org",
                 path |-> "/wikipedia/commons/d/d3/Test.pdf", q |-> "", rooted |-> TRUE]
CaptchaMarker == "Please Enter Valid Captcha Text"

\* settings
account_number == "A1001"
zip_code == <<"9", "0", "4", "0", "1", "-", "2", "3">>
last_name == "Doe"
email == "doe@example.org"

(***************************************************************************)
(* Helpers                                                                 *)
(***************************************************************************)
Min(a, b) == IF a < b THEN a ELSE b

\* s[:n]
Take(s, n) == SubSeq(s, 1, Min(n, Len(s)))

EmptyMap == [n \in {} |-> ""]

\* d[k] = v on a dict
Put(d, k, v) == [n \in DOMAIN d \cup {k} |-> IF n = k THEN v ELSE d[n]]

\* {**a, **b}
Merge(a, b) == [n \in DOMAIN a \cup DOMAIN b |-> IF n \in DOMAIN b THEN b[n] ELSE a[n]]

\* str.upper() on the method names that occur
Upper(s) ==
    CASE s = "post" -> "POST"
      [] s = "get" -> "GET"
      [] s = "Get" -> "GET"
      [] s = "put" -> "PUT"
      [] OTHER -> s

\* urljoin(BASE_URL, ref): an absolute reference passes through; a relative one is
\* resolved against the base, whose path is empty, so the result is rooted
urljoin(base, ref) ==
    IF ref.host # "" THEN ref
    ELSE [host |-> base, path |-> ref.path, q |-> ref.q, rooted |-> TRUE]

IsAbsolute(url) == url # None /\ url.host # "" /\ url.rooted

(***************************************************************************)
(* Events (app.py emit)                                                    *)
(***************************************************************************)
Log(m) == [type |-> "log", message |-> m]
Status(m) == [type |-> "status", message |-> m]
Complete(m, files) == [type |-> "complete", message |-> m, files |-> files]
Error(m) == [type |-> "error", message |-> m]

IsTerminal(e) == e.type \in {"complete", "error"}
IsStatus(e) == e.type = "status"

\* the messages of the status events, in emission order
RECURSIVE StatusesOf(_)
StatusesOf(es) ==
    IF es = <<>> THEN <<>>
    ELSE IF IsStatus(Head(es)) THEN <<Head(es).message>> \o StatusesOf(Tail(es))
    ELSE StatusesOf(Tail(es))

(***************************************************************************)
(* HTML documents the portal serves                                        *)
(***************************************************************************)
Ref(host, path, q, rooted) == [host |-> host, path |-> path, q |-> q, rooted |-> rooted]
Rel(path, q) == Ref("", path, q, TRUE)

Elem(tag, name, value, type) == [tag |-> tag, name |-> name, value |-> value, type |-> type]
Form(action, method, elems) == [action |-> action, method |-> method, elems |-> elems]
Page(forms, imgs, anchors, phrases) ==
    [forms |-> forms, imgs |-> imgs, anchors |-> anchors, phrases |-> phrases]

\* the paths whose lower-cased text contains 'captcha'
CaptchaPaths == {"/pbw/captcha.jsp", "/pbw/Captcha"}
\* the query and path texts that contain 'pdf'
PdfTexts == {"FileType=pdf&id=9", "/files/permit.pdf", "files/permit.pdf"}

AuthInputs ==
    <<Elem("input", "accountNo", NoAttr, "text"),
      Elem("input", "zip", NoAttr, "text"),
      Elem("input", "lastName", NoAttr, "text"),
      Elem("input", "captchaSText", NoAttr, "text")>>

\* the n-th load of the entry page: the portal issues a fresh token and a fresh
\* captcha image per page load
AuthForm(kind, n) ==
    Form(Rel("/pbw/inputAction.doh", ""),
         IF kind = "get_form" THEN "get" ELSE NoAttr,
         <<Elem("input", "TokenKey", "tok-" \o ToString(n), "hidden")>>
           \o (IF kind = "hidden_only" THEN <<>> ELSE AuthInputs)
           \o <<Elem("input", NoAttr, "Submit", "submit")>>)

CaptchaImg(n) == [id |-> "captchaImg", src |-> Rel("/pbw/captcha.jsp", ToString(n))]
LogoImg == [id |-> NoAttr, src |-> Rel("/pbw/images/logo.gif", "")]

InitialKinds == {"full", "hidden_only", "get_form", "no_captcha", "no_form"}

InitialPage(kind, n) ==
    Page(IF kind = "no_form" THEN <<>> ELSE <<AuthForm(kind, n)>>,
         IF kind = "no_captcha" THEN <<LogoImg>> ELSE <<LogoImg, CaptchaImg(n)>>,
         <<>>, {})

\* the entry page again, with the rejection message
RejectedPage == Page(<<AuthForm("full", 0)>>, <<LogoImg, CaptchaImg(0)>>, <<>>,
                     {CaptchaMarker, "please", "valid"})

\* the permit details form of the portal
DetailsPage ==
    Page(<<Form(Rel("/pbw/permitAction.doh", ""), "post",
                <<Elem("input", "TokenKey", "tok-d", "hidden"),
                  Elem("select", "permitCount", NoAttr, NoAttr),
                  Elem("input", "permitMonth", "1", "text"),
                  Elem("input", "email", NoAttr, "text"),
                  Elem("input", "emailConfirm", NoAttr, "text")>>)>>,
         <<>>, <<>>, {})

\* a details form whose field names all have two characters
ShortDetailsPage ==
    Page(<<Form(Rel("/pbw/permitAction.doh", ""), "get",
                <<Elem("input", "tk", "tok-d", "hidden"),
                  Elem("input", "em", NoAttr, "text")>>)>>,
         <<>>, <<>>, {})

NoFormPage == Page(<<>>, <<>>, <<>>, {"error"})

\* a form that defines no named field and no action
BareFormPage == Page(<<Form(None, NoAttr, <<Elem("input", NoAttr, "Go", "submit")>>)>>,
                     <<>>, <<>>, {})

ConfirmPage ==
    Page(<<Form(Rel("/pbw/confirmAction.doh", ""), "POST",
                <<Elem("input", "TokenKey", "tok-c", "hidden"),
                  Elem("input", "requestType", "review", "hidden"),
                  Elem("input", "submit", "Submit", "submit")>>)>>,
         <<>>, <<>>, {})

ShortConfirmPage ==
    Page(<<Form(Rel("/pbw/confirmAction.doh", ""), NoAttr,
                <<Elem("input", "tk", "tok-c", "hidden"),
                  Elem("input", "rt", "review", "hidden")>>)>>,
         <<>>, <<>>, {})

\* an a element: href is None or [js, args]; js says that the href contains
\* 'javascript:', args are the quoted substrings of the href, in order
Anchor(js, args) == [href |-> [js |-> js, args |-> args]]

RelPdfRef == Rel("/pbw/pdf", "FileType=pdf&id=9")
AbsPdfRef == Ref("https://cdn.example.org", "/files/permit.pdf", "", TRUE)

OneLinkPage == Page(<<>>, <<>>, <<Anchor(TRUE, <<Rel("_blank", ""), RelPdfRef>>)>>, {})
AbsLinkPage == Page(<<>>, <<>>,
                    <<Anchor(FALSE, <<RelPdfRef>>), Anchor(TRUE, <<AbsPdfRef>>),
                      Anchor(TRUE, <<RelPdfRef>>)>>, {})
\* a page without any document link: the portal went back to the details form
NoLinkPage == Page(DetailsPage.forms, <<>>,
                   <<[href |-> None], Anchor(TRUE, <<Rel("/pbw/help.jsp", "")>>),
                     Anchor(FALSE, <<RelPdfRef>>)>>,
                   {"error", "please", "valid"})
EmptyPage == Page(<<>>, <<>>, <<>>, {})

AuthResponses == {RejectedPage, DetailsPage, ShortDetailsPage, BareFormPage, NoFormPage}
DetailsResponses == {ConfirmPage, ShortConfirmPage, NoFormPage}
FinalResponses == {OneLinkPage, AbsLinkPage, NoLinkPage, EmptyPage}
Documents == {"%PDF-a", "%PDF-b"}

(***************************************************************************)
(* Form Snapshot Parser (main.py fetch_initial_form, parse_next_form)      *)
(***************************************************************************)
\* a falsy Python value: None or the empty string
Falsy(v) == v = NoAttr \/ v = ""
FalsyRef(r) == r = None \/ r = Ref("", "", "", FALSE)

\* tag.get(attr, default)
Get(v, default) == IF v = NoAttr THEN default ELSE v

\* the mutant: only input elements are collected
FieldTagsInputOnly == {"input"}

\* main.py 78, 404: find_all(['input', 'select', 'textarea'])
FieldTags == {"input", "select", "textarea"}

\* main.py 76-82: name -> value
RECURSIVE InitialFields(_)
InitialFields(elems) ==
    IF elems = <<>> THEN EmptyMap
    ELSE LET e == elems[Len(elems)]
             rest == InitialFields(SubSeq(elems, 1, Len(elems) - 1))
         IN IF e.tag \notin FieldTags \/ Falsy(e.name) THEN rest
            ELSE Put(rest, e.name, Get(e.value, ""))

\* main.py 403-413: name -> {value, type}
RECURSIVE NextFields(_)
NextFields(elems) ==
    IF elems = <<>> THEN EmptyMap
    ELSE LET e == elems[Len(elems)]
             rest == NextFields(SubSeq(elems, 1, Len(elems) - 1))
         IN IF e.tag \notin FieldTags \/ Falsy(e.name) THEN rest
            ELSE Put(rest, e.name, [value |-> Get(e.value, ""), type |-> Get(e.type, "text")])

\* soup.find(...), re.search(...): the first of the elements of s whose indices are
\* in matching, or None
FirstOf(s, matching) ==
    IF matching = {} THEN None
    ELSE s[CHOOSE i \in matching : \A j \in matching : i <= j]

HasCaptchaId(img) == img.id = "captchaImg"
\* the mutant: any image with a source is taken for the captcha
SrcMentionsCaptchaAny(img) == ~FalsyRef(img.src)

\* main.py 85: 'captcha' in x.lower()
SrcMentionsCaptcha(img) == ~FalsyRef(img.src) /\ img.src.path \in CaptchaPaths

\* main.py 84-90
FindCaptchaUrl(page) ==
    LET byId == FirstOf(page.imgs, {i \in DOMAIN page.imgs : HasCaptchaId(page.imgs[i])})
        bySrc == FirstOf(page.imgs,
                         {i \in DOMAIN page.imgs : SrcMentionsCaptcha(page.imgs[i])})
        captcha_img == IF byId # None THEN byId ELSE bySrc
    IN IF captcha_img = None THEN None
       ELSE IF FalsyRef(captcha_img.src) THEN None
       ELSE urljoin(BASE_URL, captcha_img.src)

\* soup.find('form'): the first form of the document, or None
FindForm(page) == IF page.forms = <<>> THEN None ELSE page.forms[1]

\* the mutant: the parser takes it that every document has a form
FoundFormAlways(form) == TRUE

\* main.py 71-72, 77, 391: `if form`, `if not form`; a Tag is truthy, None is not
FoundForm(form) == form # None

\* what form.get(...) raises when form is None
NoneHasNoGet == "AttributeError: 'NoneType' object has no attribute 'get'"

\* main.py 68-100, on the body of a 2xx response; error is the exception the parsing
\* ends with, or NoExc
ParseInitialForm(page) ==
    LET form == FindForm(page)
        form_action == IF form = None THEN None ELSE form.action
    IN IF FoundForm(form) /\ form = None
       THEN [html |-> page, form_action |-> None, form_method |-> NoAttr,
             form_fields |-> EmptyMap, captcha_url |-> None, error |-> NoneHasNoGet]
       ELSE [html |-> page,
             form_action |-> IF FalsyRef(form_action) THEN None
                             ELSE urljoin(BASE_URL, form_action),
             form_method |-> IF FoundForm(form) THEN Upper(Get(form.method, "post"))
                             ELSE "POST",
             form_fields |-> IF FoundForm(form) THEN InitialFields(form.elems)
                             ELSE EmptyMap,
             captcha_url |-> FindCaptchaUrl(page),
             error |-> NoExc]

\* the mutant: a document without a form parses to a POST to the entry URL
parse_next_form_defaulting(page) ==
    LET form == FindForm(page)
    IN IF form = None
       THEN [form_action |-> FORM_URL, form_method |-> "POST", form_fields |-> EmptyMap,
             has_form |-> FALSE, error |-> NoExc]
       ELSE [form_action |-> IF FalsyRef(form.action) THEN None
                             ELSE urljoin(BASE_URL, form.action),
             form_method |-> Upper(Get(form.method, "post")),
             form_fields |-> NextFields(form.elems),
             has_form |-> TRUE, error |-> NoExc]

\* main.py 377-421; error is the exception the parsing ends with, or NoExc
parse_next_form(page) ==
    LET form == FindForm(page)
    IN IF ~FoundForm(form)
       THEN [form_action |-> None, form_method |-> NoAttr, form_fields |-> EmptyMap,
             has_form |-> FALSE, error |-> NoExc]
       ELSE IF form = None
       THEN [form_action |-> None, form_method |-> NoAttr, form_fields |-> EmptyMap,
             has_form |-> FALSE, error |-> NoneHasNoGet]
       ELSE [form_action |-> IF FalsyRef(form.action) THEN None
                             ELSE urljoin(BASE_URL, form.action),
             form_method |-> Upper(Get(form.method, "post")),
             form_fields |-> NextFields(form.elems),
             has_form |-> TRUE, error |-> NoExc]

(***************************************************************************)
(* Form Submission Driver (main.py submit_form, submit_dynamic_form)       *)
(***************************************************************************)
\* main.py 317-323
AuthFormData(form_fields, text) ==
    Merge(form_fields,
          [n \in {"accountNo", "zip", "lastName", "captchaSText"} |->
              CASE n = "accountNo" -> account_number
                [] n = "zip" -> Take(zip_code, ZipPrefixLen)
                [] n = "lastName" -> last_name
                [] OTHER -> text])

\* the mutant: every update is sent, whether the form defines its name or not
DynamicFormDataMerged(form_fields, updates) ==
    Merge([n \in DOMAIN form_fields |-> form_fields[n].value], updates)

\* main.py 443-448
DynamicFormData(form_fields, updates) ==
    [n \in DOMAIN form_fields |->
        IF n \in DOMAIN updates THEN updates[n] ELSE form_fields[n].value]

\* main.py 326-329, 451-454: any method but GET is sent as a POST
DispatchMethod(form_method) == IF Upper(form_method) = "GET" THEN "GET" ELSE "POST"

\* app.py 562-569
DetailsUpdates ==
    [n \in {"permitCount", "permitMonth", "permitDay", "permitYear", "email",
            "emailConfirm"} |->
        CASE n = "permitCount" -> "1"
          [] n = "permitMonth" -> "11"
          [] n = "permitDay" -> "4"
          [] n = "permitYear" -> "2026"
          [] OTHER -> email]

\* app.py 600-603
FinalUpdates == [n \in {"requestType", "submit"} |->
                    IF n = "requestType" THEN "submit" ELSE "Submit"]

\* app.py 539, 543, 583, 587: `for name, _ in form_fields` iterates the keys of the
\* dict and unpacks each key, a string, into two variables; that succeeds only
\* for a key of exactly two characters
KeysUnpack(form_fields) == \A n \in DOMAIN form_fields : Len(n) = 2

(***************************************************************************)
(* CAPTCHA Resolver (main.py _get_access_token, solve_captcha_with_vision_api) *)
(***************************************************************************)
AsciiDigits == {"0", "1", "2", "3", "4", "5", "6", "7", "8", "9"}
\* the characters str.isdigit() accepts: U+0663 is ARABIC-INDIC DIGIT THREE
UnicodeDigits == AsciiDigits \cup {"U+0663"}
Whitespace == {" ", "\n", "\t"}

\* the texts the OCR service detects, as sequences of characters
RawTexts ==
    { <<"1", "2", "3", "4", "5">>,
      <<" ", "1", "2", " ", "3", "4", "5", "\n">>,
      <<"1", "2", "3", "4">>,
      <<"1", "2", "a", "4", "5">>,
      <<"U+0663", "2", "3", "4", "5">>,
      <<" ", "\n">> }

RECURSIVE LStrip(_)
LStrip(t) == IF t # <<>> /\ Head(t) \in Whitespace THEN LStrip(Tail(t)) ELSE t

RECURSIVE RStrip(_)
RStrip(t) ==
    IF t # <<>> /\ t[Len(t)] \in Whitespace THEN RStrip(SubSeq(t, 1, Len(t) - 1)) ELSE t

\* str.replace(c, '')
RECURSIVE Remove(_, _)
Remove(t, c) ==
    IF t = <<>> THEN <<>>
    ELSE IF Head(t) = c THEN Remove(Tail(t), c)
    ELSE <<Head(t)>> \o Remove(Tail(t), c)

\* main.py 262: detected_text.strip().replace('\n', '').replace(' ', '')
CleanText(t) == Remove(Remove(RStrip(LStrip(t)), "\n"), " ")

\* a response of the Vision API: its status and, per image, the text annotations
\* and the error object (NoAttr when there is none)
VisionResponse(status, responses) == [status |-> status, responses |-> responses]
ImageResponse(annotations, error) == [textAnnotations |-> annotations, error |-> error]

VisionResponses ==
    { VisionResponse(200, <<ImageResponse(<<t>>, NoAttr)>>) : t \in RawTexts }
      \cup { VisionResponse(403, <<>>),
             VisionResponse(200, <<>>),
             VisionResponse(200, <<ImageResponse(<<>>, NoAttr)>>),
             VisionResponse(200, <<ImageResponse(<<>>, "quota exceeded")>>) }

\* main.py 241-270: [ok, text] or [ok, error]
SolveOutcome(resp) ==
    IF resp.status # 200
    THEN [ok |-> FALSE, text |-> <<>>, error |-> "Vision API error (HTTP status)"]
    ELSE IF Len(resp.responses) > 0
    THEN LET response_data == resp.responses[1]
         IN IF Len(response_data.textAnnotations) > 0
            THEN [ok |-> TRUE, text |-> CleanText(response_data.textAnnotations[1]),
                  error |-> NoExc]
            ELSE IF response_data.error # NoAttr
            THEN [ok |-> FALSE, text |-> <<>>, error |-> "Vision API error"]
            ELSE [ok |-> FALSE, text |-> <<>>,
                  error |-> "No text detected in CAPTCHA image"]
    ELSE [ok |-> FALSE, text |-> <<>>, error |-> "Invalid response from Vision API"]

\* a response of the token endpoint
TokenResponse(status, token, expires_in) ==
    [status |-> status, access_token |-> token, expires_in |-> expires_in]
\* expires_in is -1 when the body has no such key
NoExpiresIn == -1
NoExpiry == -1

TokenResponses ==
    { TokenResponse(200, "ya29.token", 3600),
      TokenResponse(200, "ya29.other", 3600),
      TokenResponse(200, "ya29.token", NoExpiresIn),
      TokenResponse(200, "ya29.token", 300),
      TokenResponse(400, NoAttr, NoExpiresIn),
      TokenResponse(200, NoAttr, NoExpiresIn) }

\* the mutant: the token is reused until its expiry, without the grace period
CachedTokenValidUntilExpiry(token, expiry, t) ==
    /\ ~Falsy(token)
    /\ expiry # NoExpiry
    /\ t < expiry

\* the mutant: the comparison with the end of the reuse window is not strict
CachedTokenValidInclusive(token, expiry, t) ==
    /\ ~Falsy(token)
    /\ expiry # NoExpiry
    /\ t <= expiry - GraceSeconds

\* main.py 114-118
CachedTokenValid(token, expiry, t) ==
    /\ ~Falsy(token)
    /\ expiry # NoExpiry
    /\ t < expiry - GraceSeconds

\* main.py 174-183: the error the exchange ends with, or NoExc; {status} and {body}
\* stand where the message quotes the status and the body of the response
ExchangeError(resp) ==
    IF resp.status # 200 THEN "Failed to obtain access token (HTTP {status}): {body}"
    ELSE IF resp.access_token = NoAttr THEN "Failed to obtain access token: {body}"
    ELSE NoExc

\* main.py 187-188
NewExpiry(resp, t) ==
    t + (IF resp.expires_in = NoExpiresIn THEN DefaultExpiresIn ELSE resp.expires_in)

(***************************************************************************)
(* Result Extraction (app.py 612-629)                                      *)
(***************************************************************************)
IsJavascriptLink(a) == a.href # None /\ a.href.js

MentionsPdf(ref) == ref.path \in PdfTexts \/ ref.q \in PdfTexts

\* app.py 624: pdf_url.startswith('http')
StartsWithHttp(ref) == ref.host # ""

\* app.py 625: f"https://wmq.etimspayments.com{pdf_url}", a concatenation
Prefixed(ref) == [host |-> BASE_URL, path |-> ref.path, q |-> ref.q, rooted |-> ref.rooted]

\* app.py 621-626: the first quoted substring that mentions pdf, made absolute
LinkOf(a) ==
    LET args == a.href.args
        m == FirstOf(args, {i \in DOMAIN args : MentionsPdf(args[i])})
    IN IF m = None THEN <<>>
       ELSE IF StartsWithHttp(m) THEN <<m>> ELSE <<Prefixed(m)>>

RECURSIVE ExtractPdfLinks(_)
ExtractPdfLinks(anchors) ==
    IF anchors = <<>> THEN <<>>
    ELSE (IF IsJavascriptLink(Head(anchors)) THEN LinkOf(Head(anchors)) ELSE <<>>)
         \o ExtractPdfLinks(Tail(anchors))

(***************************************************************************)
(* Workflow Orchestrator (app.py generate_permits_stream)                  *)
(***************************************************************************)
settingVars == <<dry_run, auto_print, portal, consumer, server>>
tokenVars == <<access_token, token_expiry, now, exchanges>>
loopVars == <<fetches, form_data, captcha_attempt, solve_calls, ocr, captcha_text, result>>
stageVars == <<next_form, permit_result, confirm_form, final_result, pdf_links>>
printVars == <<pdf_bytes, temp_files, print_calls, print_success, tmp, tasks>>

\* the consumer of the stream, still iterating event_generator
Consuming == [gone |-> FALSE]

\* the server process before any /stream request
Serving ==
    [automations |-> <<>>, clients |-> <<>>,
     run |-> [r \in {1, 2} |-> [pc |-> "start", automation |-> 0, attempt |-> 1,
                                log |-> <<>>]]]

\* a `yield` hands an event to the consumer; a generator whose consumer is gone is
\* not resumed past a yield, so that it emits nothing more
Emit(es) == events' = IF consumer.gone THEN events ELSE events \o es

\* an exception leaves the body of the `async with`: __aexit__ runs next
Raise(msg) ==
    /\ exc' = msg
    /\ cause' = msg
    /\ pc' = "aexit"

NoRaise == UNCHANGED <<exc, cause>>

\* a cookie of the jar: httpx sends it with the requests to its domain
Cookie(name, domain) == [name |-> name, domain |-> domain]

\* the cookies the portal sets on a 2xx response
SetCookies(kind, ok) ==
    IF ~ok THEN {}
    ELSE CASE kind = "initial" -> {Cookie("JSESSIONID", BASE_URL)}
           [] kind = "auth" -> {Cookie("TS01", BASE_URL)}
           [] OTHER -> {}

\* the Cookie header of a request to url, built from the jar
CookiesFor(url, jar) == {c \in jar : c.domain = url.host}

\* main.py 43-52: httpx.AsyncClient(cookies=httpx.Cookies(), ...), a new client
\* with an empty jar
NewClient(c) == [state |-> "open", id |-> c.id + 1, cookies |-> {}]

\* the mutant: the captcha image is fetched through a client of its own, as the
\* Vision API and the token endpoint are
ViaOneOffForCaptcha(kind) == IF kind = "captcha" THEN "oneoff" ELSE "session"

\* main.py 64, 284, 327-329, 452-454, 476 and app.py 511: self.client / automation.client
Via(kind) == "session"

\* a request: what was sent and through which client, whether it ended with a 2xx
\* status, the cookies the response set and the document the portal answered with
\* (None for a failure or a file), and the number of events emitted when it was sent
Request(kind, method, url, data, ok, resp) ==
    [kind |-> kind, attempt |-> captcha_attempt, method |-> method, url |-> url,
     data |-> data,
     client |-> IF Via(kind) = "session" THEN client.id ELSE 0,
     cookies |-> IF Via(kind) = "session" THEN CookiesFor(url, client.cookies) ELSE {},
     ok |-> ok, set_cookies |-> SetCookies(kind, ok),
     resp |-> IF ok THEN resp ELSE None,
     at |-> Len(events)]

\* the jar of the client that carried the request keeps the cookies of the response
Send(kind, method, url, data, ok, resp) ==
    /\ requests' = Append(requests, Request(kind, method, url, data, ok, resp))
    /\ client' = IF Via(kind) = "session"
                 THEN [client EXCEPT !.cookies = @ \cup SetCookies(kind, ok)]
                 ELSE client

\* the mutant: the status of a response is never looked at
raise_for_status_missing(ok) == FALSE

\* main.py 65, 285, 331, 456, 477 and app.py 512: response.raise_for_status() raises
\* unless the request ended with a 2xx status; a transport error raises in the
\* request itself
raise_for_status(ok) == ~ok

\* app.py 401-407, 411-412
BannerEvents ==
    <<Log("====="),
      Log(IF dry_run THEN "DRY-RUN MODE - Test workflow without final submission"
          ELSE "Santa Monica Parking Permit Automation"),
      Log("====="), Log("")>>

\* the mutant: the loaded form is not reported
LoadedEventsSilent(fd) == <<Log("")>>

\* app.py 415-420
LoadedEvents(fd) ==
    <<Log("Form loaded (Status: 200)"), Log("Found form fields")>>
      \o (IF fd.captcha_url # None THEN <<Log("CAPTCHA URL")>> ELSE <<>>)
      \o <<Log("")>>

\* the mutant: the status is set once, before the loop's first attempt only
SolveEventsOnce(attempt) ==
    <<Log("[2/7] Solving CAPTCHA with Google Vision API (attempt)")>>
      \o (IF attempt = 1 THEN <<Status("Solving CAPTCHA")>> ELSE <<>>)

\* the mutant: a retry announces the re-fetch of the form as its stage
SolveEventsAfterFetchStatus(attempt) ==
    (IF attempt > 1 THEN <<Status("Fetching form")>> ELSE <<>>)
      \o <<Log("[2/7] Solving CAPTCHA with Google Vision API (attempt)"),
           Status("Solving CAPTCHA")>>

\* app.py 431-435
SolveEvents(attempt) ==
    <<Log("[2/7] Solving CAPTCHA with Google Vision API (attempt)"),
      Status("Solving CAPTCHA")>>

\* the mutant: an off-by-one in the loop's budget test
HasAttemptsLeftOffByOne(attempt) == attempt <= max_captcha_attempts

\* app.py 427, 447, 480: captcha_attempt < max_captcha_attempts
HasAttemptsLeft(attempt) == attempt < max_captcha_attempts

\* app.py 442: captcha_text.isdigit() and len(captcha_text) == 5
FormatValid(text) ==
    /\ text # <<>>
    /\ \A i \in DOMAIN text : text[i] \in UnicodeDigits
    /\ Len(text) = CaptchaLen

\* the mutant: the rejection marker is never recognised
CaptchaRejectedNever(page) == FALSE

\* app.py 475: "Please Enter Valid Captcha Text" in result['html']
CaptchaRejected(page) == CaptchaMarker \in page.phrases

ExhaustedFormat == "Failed to solve CAPTCHA after 3 attempts"
ExhaustedRejected == "CAPTCHA validation failed after 3 attempts"
NoResult == "Failed to authenticate - no valid response received"
NoDocument == "Permit generation failed: Final submission returned HTTP 200 but no PDF links were found."
HttpError == "httpx.HTTPError"
NoUrl == "TypeError: Invalid type for url"
NoMethod == "AttributeError: 'NoneType' object has no attribute 'upper'"
Unpack == "ValueError: values to unpack (expected 2)"
NoFirstLink == "IndexError: list index out of range"
CloseError == "error raised by aclose()"

\* app.py 501-557: after the loop; the dry-run branch, or steps 4 and 5 up to the
\* details submission.  With two-character keys the TokenKey lookup of line 543
\* compares single characters with 'TokenKey' and never finds a token.
Proceed(res, es) ==
    IF res = None
    THEN /\ Emit(es)
         /\ Raise(NoResult)
         /\ UNCHANGED next_form
    ELSE IF dry_run
    THEN /\ Emit(es \o <<Log("Downloading permit PDF...")>>)
         /\ pc' = "dry_get"
         /\ NoRaise
         /\ UNCHANGED next_form
    ELSE LET nf == parse_next_form(res.html)
             parsed == <<Log("[4/7] Parsing permit details form..."),
                         Status("Processing form"),
                         Log("Found form action"), Log("Found fields")>>
         IN /\ next_form' = nf
            /\ IF KeysUnpack(nf.form_fields)
               THEN /\ Emit(es \o parsed
                            \o <<Log("Fields"), Log(""),
                                 Log("[5/7] Submitting permit request..."),
                                 Status("Submitting permit request"),
                                 Log("Requesting permit(s)"), Log("Email")>>)
                    /\ pc' = "details"
                    /\ NoRaise
               ELSE /\ Emit(es \o parsed)
                    /\ Raise(Unpack)

\* the mutant: the loop's condition is false at once and its body is skipped
LoopHeadSkipping(attempt, res, es) ==
    /\ captcha_attempt' = attempt
    /\ Proceed(res, es)

\* app.py 427-435: the head of the while loop, reached at loop entry and at `continue`
LoopHead(attempt, res, es) ==
    IF HasAttemptsLeft(attempt)
    THEN /\ captcha_attempt' = attempt + 1
         /\ Emit(es \o SolveEvents(attempt + 1))
         /\ pc' = "captcha_get"
         /\ NoRaise
         /\ UNCHANGED next_form
    ELSE /\ captcha_attempt' = attempt
         /\ Proceed(res, es)

\* app.py 409-412 and main.py 42-52
Begin ==
    /\ pc = "start"
    /\ client' = NewClient(client)
    /\ Emit(BannerEvents \o <<Log("[1/7] Fetching initial form..."), Status("Fetching form")>>)
    /\ pc' = "fetch"
    /\ UNCHANGED <<exc, cause, settingVars, closes, requests, loopVars, stageVars,
                   printVars, tokenVars, call>>

\* app.py 414-435 with main.py 59-100
FetchInitialForm ==
    /\ pc = "fetch"
    /\ \E ok \in BOOLEAN :
        /\ Send("initial", "GET", FORM_URL, EmptyMap, ok, InitialPage(portal, fetches + 1))
        /\ IF ~raise_for_status(ok)
           THEN LET fd == ParseInitialForm(InitialPage(portal, fetches + 1))
                IN /\ fetches' = fetches + 1
                   /\ form_data' = fd
                   /\ result' = None
                   /\ LoopHead(0, None, LoadedEvents(fd))
           ELSE /\ Raise(HttpError)
                /\ UNCHANGED <<events, fetches, form_data, captcha_attempt, result,
                               next_form>>
    /\ UNCHANGED <<settingVars, closes, solve_calls, ocr, captcha_text,
                   permit_result, confirm_form, final_result, pdf_links,
                   printVars, tokenVars, call>>

\* the mutant: the page of the re-fetch is dropped and the first form is kept
RefetchInitialFormStale ==
    /\ pc = "refetch"
    /\ \E ok \in BOOLEAN :
        /\ Send("initial", "GET", FORM_URL, EmptyMap, ok, InitialPage(portal, fetches + 1))
        /\ IF ~raise_for_status(ok)
           THEN /\ fetches' = fetches + 1
                /\ UNCHANGED form_data
                /\ LoopHead(captcha_attempt, result, <<>>)
           ELSE /\ Raise(HttpError)
                /\ UNCHANGED <<events, fetches, form_data, captcha_attempt, next_form>>
    /\ UNCHANGED <<settingVars, closes, solve_calls, ocr, captcha_text, result,
                   permit_result, confirm_form, final_result, pdf_links,
                   printVars, tokenVars, call>>

\* app.py 450-451 and 483-484: the re-fetch, then `continue`
RefetchInitialForm ==
    /\ pc = "refetch"
    /\ \E ok \in BOOLEAN :
        /\ Send("initial", "GET", FORM_URL, EmptyMap, ok, InitialPage(portal, fetches + 1))
        /\ IF ~raise_for_status(ok)
           THEN /\ fetches' = fetches + 1
                /\ form_data' = ParseInitialForm(InitialPage(portal, fetches + 1))
                /\ LoopHead(captcha_attempt, result, <<>>)
           ELSE /\ Raise(HttpError)
                /\ UNCHANGED <<events, fetches, form_data, captcha_attempt, next_form>>
    /\ UNCHANGED <<settingVars, closes, solve_calls, ocr, captcha_text, result,
                   permit_result, confirm_form, final_result, pdf_links,
                   printVars, tokenVars, call>>

\* app.py 437 with main.py 284-286: the image is fetched over the session
DownloadCaptcha ==
    /\ pc = "captcha_get"
    /\ solve_calls' = solve_calls + 1
    /\ IF form_data.captcha_url = None
       THEN /\ Raise(NoUrl)
            /\ UNCHANGED <<requests, client>>
       ELSE \E ok \in BOOLEAN :
            /\ Send("captcha", "GET", form_data.captcha_url, EmptyMap, ok, None)
            /\ IF ~raise_for_status(ok) THEN pc' = "token" /\ NoRaise ELSE Raise(HttpError)
    /\ UNCHANGED <<events, settingVars, closes, fetches, form_data,
                   captcha_attempt, ocr, captcha_text, result, stageVars, printVars,
                   tokenVars, call>>

\* the token endpoint's answers within a run
RunTokenResponses == {r \in TokenResponses : r.expires_in # 300}

\* main.py 230 with 113-190
GetAccessToken ==
    /\ pc = "token"
    /\ IF CachedTokenValid(access_token, token_expiry, now)
       THEN /\ pc' = "vision"
            /\ NoRaise
            /\ UNCHANGED <<access_token, token_expiry, exchanges>>
       ELSE \E resp \in RunTokenResponses :
            /\ exchanges' = exchanges + 1
            /\ IF ExchangeError(resp) # NoExc
               THEN /\ Raise(ExchangeError(resp))
                    /\ UNCHANGED <<access_token, token_expiry>>
               ELSE /\ access_token' = resp.access_token
                    /\ token_expiry' = NewExpiry(resp, now)
                    /\ pc' = "vision"
                    /\ NoRaise
    /\ UNCHANGED <<events, settingVars, client, closes, requests, loopVars, stageVars,
                   printVars, now, call>>

\* the mutant: a failed OCR call is retried like a text of invalid shape
SolveCaptchaRetrying ==
    /\ pc = "vision"
    /\ \E resp \in VisionResponses :
        LET out == SolveOutcome(resp)
            text == out.text
        IN IF ~out.ok
           THEN /\ UNCHANGED <<ocr, captcha_text>>
                /\ IF HasAttemptsLeft(captcha_attempt)
                   THEN /\ Emit(<<Log("Retrying with fresh CAPTCHA...")>>)
                        /\ pc' = "refetch"
                        /\ NoRaise
                   ELSE /\ Raise(out.error)
                        /\ UNCHANGED events
           ELSE /\ ocr' = Append(ocr, text)
                /\ captcha_text' = text
                /\ IF ~FormatValid(text)
                   THEN IF HasAttemptsLeft(captcha_attempt)
                        THEN /\ Emit(<<Log("CAPTCHA format invalid"),
                                       Log("Retrying with fresh CAPTCHA...")>>)
                             /\ pc' = "refetch"
                             /\ NoRaise
                        ELSE /\ Emit(<<Log("CAPTCHA format invalid")>>)
                             /\ Raise(ExhaustedFormat)
                   ELSE /\ Emit(<<Log("CAPTCHA solved"), Log(""),
                                  Log("[3/7] Submitting authentication..."),
                                  Status("Authenticating")>>)
                        /\ pc' = "auth"
                        /\ NoRaise
    /\ UNCHANGED <<settingVars, client, closes, requests, fetches, form_data,
                   captcha_attempt, solve_calls, result, stageVars, printVars,
                   tokenVars, call>>

\* app.py 441-462 with main.py 234-270
SolveCaptcha ==
    /\ pc = "vision"
    /\ \E resp \in VisionResponses :
        LET out == SolveOutcome(resp)
            text == out.text
        IN IF ~out.ok
           THEN /\ Raise(out.error)
                /\ UNCHANGED <<events, ocr, captcha_text>>
           ELSE /\ ocr' = Append(ocr, text)
                /\ captcha_text' = text
                /\ IF ~FormatValid(text)
                   THEN IF HasAttemptsLeft(captcha_attempt)
                        THEN /\ Emit(<<Log("CAPTCHA format invalid"),
                                       Log("Retrying with fresh CAPTCHA...")>>)
                             /\ pc' = "refetch"
                             /\ NoRaise
                        ELSE /\ Emit(<<Log("CAPTCHA format invalid")>>)
                             /\ Raise(ExhaustedFormat)
                   ELSE /\ Emit(<<Log("CAPTCHA solved"), Log(""),
                                  Log("[3/7] Submitting authentication..."),
                                  Status("Authenticating")>>)
                        /\ pc' = "auth"
                        /\ NoRaise
    /\ UNCHANGED <<settingVars, client, closes, requests, fetches, form_data,
                   captcha_attempt, solve_calls, result, stageVars, printVars,
                   tokenVars, call>>

\* app.py 464-498 with main.py 316-338
SubmitAuthentication ==
    /\ pc = "auth"
    /\ IF form_data.form_action = None
       THEN /\ Raise(NoUrl)
            /\ UNCHANGED <<events, requests, client, result, next_form>>
       ELSE \E ok \in BOOLEAN, page \in AuthResponses :
            /\ Send("auth", DispatchMethod(form_data.form_method), form_data.form_action,
                    AuthFormData(form_data.form_fields, captcha_text), ok, page)
            /\ IF raise_for_status(ok)
               THEN /\ Raise(HttpError)
                    /\ UNCHANGED <<events, result, next_form>>
               ELSE LET res == [html |-> page, status |-> 200]
                    IN /\ result' = res
                       /\ IF CaptchaRejected(page)
                          THEN /\ UNCHANGED next_form
                               /\ IF HasAttemptsLeft(captcha_attempt)
                                  THEN /\ Emit(<<Log("CAPTCHA rejected by server"),
                                                 Log("Retrying with fresh CAPTCHA...")>>)
                                       /\ pc' = "refetch"
                                       /\ NoRaise
                                  ELSE /\ Emit(<<Log("CAPTCHA rejected by server")>>)
                                       /\ Raise(ExhaustedRejected)
                          ELSE Proceed(res, <<Log("Authentication submitted (Status: 200)"),
                                              Log("Session ID"), Log("")>>)
    /\ UNCHANGED <<settingVars, closes, fetches, form_data, captcha_attempt,
                   solve_calls, ocr, captcha_text, permit_result, confirm_form,
                   final_result, pdf_links, printVars, tokenVars, call>>

\* app.py 559-595 with main.py 442-463
SubmitDetails ==
    /\ pc = "details"
    /\ IF next_form.form_method = NoAttr
       THEN /\ Raise(NoMethod)
            /\ UNCHANGED <<events, requests, client, permit_result, confirm_form>>
       ELSE IF next_form.form_action = None
       THEN /\ Raise(NoUrl)
            /\ UNCHANGED <<events, requests, client, permit_result, confirm_form>>
       ELSE \E ok \in BOOLEAN, page \in DetailsResponses :
            /\ Send("details", DispatchMethod(next_form.form_method),
                    next_form.form_action,
                    DynamicFormData(next_form.form_fields, DetailsUpdates), ok, page)
            /\ IF raise_for_status(ok)
               THEN /\ Raise(HttpError)
                    /\ UNCHANGED <<events, permit_result, confirm_form>>
               ELSE LET cf == parse_next_form(page)
                        parsed == <<Log("Permit details submitted (Status: 200)"), Log(""),
                                    Log("[6/7] Processing confirmation..."),
                                    Status("Confirming"),
                                    Log("Confirmation form ready")>>
                    IN /\ permit_result' = [html |-> page, status |-> 200]
                       /\ confirm_form' = cf
                       /\ IF KeysUnpack(cf.form_fields)
                          THEN /\ Emit(parsed \o <<Log("Confirmation fields"), Log(""),
                                                   Log("[7/7] Final submission..."),
                                                   Status("Finalizing")>>)
                               /\ pc' = "final"
                               /\ NoRaise
                          ELSE /\ Emit(parsed)
                               /\ Raise(Unpack)
    /\ UNCHANGED <<settingVars, closes, loopVars, next_form, final_result,
                   pdf_links, printVars, tokenVars, call>>

\* app.py 665-667: the excerpt final_result['html'][:500]
SnippetLog(page) == [type |-> "log", message |-> "html_snippet", html |-> page]

\* app.py 634-692; a phrase of the page stands for a text node that matches
DiagnosticEvents(page) ==
    LET error_messages ==
            (IF "error" \in page.phrases THEN <<Log("Error found in response")>> ELSE <<>>)
            \o (IF {"please", "valid"} \subseteq page.phrases
                THEN <<Log("Validation issue")>> ELSE <<>>)
    IN <<Log("No permit PDFs were generated!"), Log(""),
         Log("Analyzing response for errors...")>>
       \o (IF error_messages # <<>> THEN error_messages
           ELSE <<Log("No specific error message found in response")>>)
       \o <<Log(""), Log("DEBUG: Response HTML snippet (first 500 chars):"),
            SnippetLog(page), Log(""), Log("DEBUG: Checking page structure...")>>
       \o (IF page.forms # <<>>
           THEN <<Log("Found form(s) on page")>>
                \o [i \in 1..Min(2, Len(page.forms)) |-> Log("Form action")]
           ELSE <<>>)
       \o <<Log("")>>

\* the mutant: the check for an empty link list is missing
NoPermitGeneratedNever(links) == FALSE

\* app.py 633: len(pdf_links) == 0
NoPermitGenerated(links) == Len(links) = 0

\* app.py 597-703 with main.py 442-463
SubmitFinal ==
    /\ pc = "final"
    /\ IF confirm_form.form_method = NoAttr
       THEN /\ Raise(NoMethod)
            /\ UNCHANGED <<events, requests, client, final_result, pdf_links>>
       ELSE IF confirm_form.form_action = None
       THEN /\ Raise(NoUrl)
            /\ UNCHANGED <<events, requests, client, final_result, pdf_links>>
       ELSE \E ok \in BOOLEAN, page \in FinalResponses :
            /\ Send("final", DispatchMethod(confirm_form.form_method),
                    confirm_form.form_action,
                    DynamicFormData(confirm_form.form_fields, FinalUpdates), ok, page)
            /\ IF raise_for_status(ok)
               THEN /\ Raise(HttpError)
                    /\ UNCHANGED <<events, final_result, pdf_links>>
               ELSE LET links == ExtractPdfLinks(page.anchors)
                        extracted ==
                            <<Log("Final submission complete (Status: 200)"), Log(""),
                              Log("Extracting PDF links..."),
                              Log("Found JavaScript link(s) to parse")>>
                            \o [i \in 1..Len(links) |-> Log("PDF link")]
                            \o <<Log("Found PDF link(s)"), Log("")>>
                    IN /\ final_result' = [html |-> page, status |-> 200]
                       /\ pdf_links' = links
                       /\ IF NoPermitGenerated(links)
                          THEN /\ Emit(extracted \o DiagnosticEvents(page))
                               /\ Raise(NoDocument)
                          ELSE IF links = <<>>
                          THEN /\ Emit(extracted)
                               /\ Raise(NoFirstLink)
                          ELSE /\ Emit(extracted \o <<Log("Downloading permit PDF..."),
                                                      Status("Downloading PDF")>>)
                               /\ pc' = "download"
                               /\ NoRaise
    /\ UNCHANGED <<settingVars, closes, loopVars, next_form, permit_result,
                   confirm_form, printVars, tokenVars, call>>

\* app.py 718-726
FinalMessage(printed) ==
    IF auto_print
    THEN IF printed THEN "Generated and printed permits"
         ELSE "Generated permits but printing failed"
    ELSE "Generated permits"

\* app.py 715-731
FinalEvents(printed, files) ==
    <<Log("====="), Log("Workflow completed successfully!"), Log(FinalMessage(printed)),
      Log("====="), Status("Complete!"), Complete(FinalMessage(printed), files)>>

\* app.py 523-527
DryRunFinalEvents(files) ==
    <<Log("====="), Log("Workflow completed successfully!"), Status("Complete"),
      Complete("Generated permits", files)>>

\* the events that end the body of the `async with`
EndEvents(printed, files) ==
    IF dry_run THEN DryRunFinalEvents(files) ELSE FinalEvents(printed, files)

\* app.py 347-356: the name of the file the document is saved under
TempFile(permit_id) == "permit_" \o permit_id \o "_tmp.pdf"

\* app.py 359: await asyncio.sleep(600)
CleanupDelay == 600

\* app.py 358-366: asyncio.create_task(cleanup()) hands the coroutine to the event
\* loop and returns at once; nothing awaits the task, which sleeps until `due`
create_task_awaited(path) ==
    [path |-> path, state |-> "sleeping", awaited |-> TRUE, during |-> "none",
     due |-> now + CleanupDelay]

create_task(path) ==
    [path |-> path, state |-> "sleeping", awaited |-> FALSE, during |-> "none",
     due |-> now + CleanupDelay]

\* the mutant: the document is printed whether printing was asked for or not
SaveDocumentAlwaysPrinting(bytes, permit_id) ==
    /\ pdf_bytes' = bytes
    /\ tmp' = tmp \cup {TempFile(permit_id)}
    /\ tasks' = Append(tasks, create_task(TempFile(permit_id)))
    /\ IF TRUE
       THEN /\ Emit(<<Log("Downloaded PDF"), Log("Saved as"), Log("Printing to printer")>>)
            /\ pc' = "print"
            /\ UNCHANGED temp_files
       ELSE /\ temp_files' = Append(temp_files, TempFile(permit_id))
            /\ Emit(<<Log("Downloaded PDF"), Log("Saved as"), Log("")>>
                    \o EndEvents(FALSE, Append(temp_files, TempFile(permit_id))))
            /\ pc' = "aexit"

\* app.py 342-377 up to the print call, then the caller's loop over its results
SaveDocument(bytes, permit_id) ==
    /\ pdf_bytes' = bytes
    /\ tmp' = tmp \cup {TempFile(permit_id)}
    /\ tasks' = Append(tasks, create_task(TempFile(permit_id)))
    /\ IF auto_print
       THEN /\ Emit(<<Log("Downloaded PDF"), Log("Saved as"), Log("Printing to printer")>>)
            /\ pc' = "print"
            /\ UNCHANGED temp_files
       ELSE /\ temp_files' = Append(temp_files, TempFile(permit_id))
            /\ Emit(<<Log("Downloaded PDF"), Log("Saved as"), Log("")>>
                    \o EndEvents(FALSE, Append(temp_files, TempFile(permit_id))))
            /\ pc' = "aexit"

\* app.py 705-731 with main.py 465-479
DownloadDocument ==
    /\ pc = "download"
    /\ \E ok \in BOOLEAN, bytes \in Documents :
        /\ Send("download", "GET", pdf_links[1], EmptyMap, ok, None)
        /\ IF ~raise_for_status(ok)
           THEN SaveDocument(bytes, "1") /\ NoRaise
           ELSE Raise(HttpError) /\ UNCHANGED <<events, pdf_bytes, temp_files, tmp, tasks>>
    /\ UNCHANGED <<settingVars, closes, loopVars, stageVars, print_calls,
                   print_success, tokenVars, call>>

\* the mutant: the failure of the test download is not caught
DownloadTestDocumentStrict ==
    /\ pc = "dry_get"
    /\ \E ok \in BOOLEAN, bytes \in Documents :
        /\ Send("testpdf", "GET", TEST_PDF_URL, EmptyMap, ok, None)
        /\ IF ~raise_for_status(ok)
           THEN SaveDocument(bytes, "test") /\ NoRaise
           ELSE Raise(HttpError) /\ UNCHANGED <<events, pdf_bytes, temp_files, tmp, tasks>>
    /\ UNCHANGED <<settingVars, closes, loopVars, stageVars, print_calls,
                   print_success, tokenVars, call>>

\* app.py 504-528: the dry-run branch; a failed download is caught and logged
DownloadTestDocument ==
    /\ pc = "dry_get"
    /\ \E ok \in BOOLEAN, bytes \in Documents :
        /\ Send("testpdf", "GET", TEST_PDF_URL, EmptyMap, ok, None)
        /\ IF ~raise_for_status(ok)
           THEN SaveDocument(bytes, "test")
           ELSE /\ Emit(<<Log("Failed to download PDF")>> \o DryRunFinalEvents(temp_files))
                /\ pc' = "aexit"
                /\ UNCHANGED <<pdf_bytes, temp_files, tmp, tasks>>
    /\ NoRaise
    /\ UNCHANGED <<settingVars, closes, loopVars, stageVars, print_calls,
                   print_success, tokenVars, call>>

\* app.py 373-377 with main.py 481-543, then the caller's final events
PrintDocument ==
    /\ pc = "print"
    /\ \E printed \in BOOLEAN :
        LET files == Append(temp_files, TempFile(IF dry_run THEN "test" ELSE "1"))
        IN /\ print_calls' = print_calls + 1
           /\ print_success' = printed
           /\ temp_files' = files
           /\ Emit(<<Log(IF printed THEN "Print job submitted successfully"
                         ELSE "Print job failed"), Log("")>>
                   \o EndEvents(printed, files))
    /\ pc' = "aexit"
    /\ NoRaise
    /\ UNCHANGED <<settingVars, client, closes, requests, loopVars, stageVars,
                   pdf_bytes, tmp, tasks, tokenVars, call>>

\* main.py 54-57: leaving the `async with`, normally or with an exception in flight;
\* an error raised by aclose() replaces the exception in flight
CloseClient ==
    /\ pc = "aexit"
    /\ client' = [client EXCEPT !.state = "closed"]
    /\ closes' = Append(closes, Len(events))
    /\ \E ok \in BOOLEAN :
        IF ok
        THEN /\ pc' = IF exc = NoExc THEN "done" ELSE "handler"
             /\ UNCHANGED exc
        ELSE /\ pc' = "handler"
             /\ exc' = CloseError
    /\ UNCHANGED <<events, cause, settingVars, requests, loopVars, stageVars, printVars,
                   tokenVars, call>>

\* app.py 751-754
EmitError ==
    /\ pc = "handler"
    /\ Emit(<<Error(exc)>>)
    /\ pc' = "traceback"
    /\ UNCHANGED <<exc, cause, settingVars, client, closes, requests, loopVars,
                   stageVars, printVars, tokenVars, call>>

\* app.py 755-757
EmitTraceback ==
    /\ pc = "traceback"
    /\ Emit(<<Log("traceback")>>)
    /\ pc' = "done"
    /\ UNCHANGED <<exc, cause, settingVars, client, closes, requests, loopVars,
                   stageVars, printVars, tokenVars, call>>

NoCall == [op |-> "none"]

Init ==
    /\ pc = "start"
    /\ events = <<>>
    /\ exc = NoExc
    /\ cause = NoExc
    /\ dry_run \in BOOLEAN
    /\ auto_print \in BOOLEAN
    /\ portal \in InitialKinds
    /\ consumer = Consuming
    /\ server = Serving
    /\ client = [state |-> "none", id |-> 0, cookies |-> {}]
    /\ closes = <<>>
    /\ requests = <<>>
    /\ fetches = 0
    /\ form_data = None
    /\ captcha_attempt = 0
    /\ solve_calls = 0
    /\ ocr = <<>>
    /\ captcha_text = <<>>
    /\ result = None
    /\ next_form = None
    /\ permit_result = None
    /\ confirm_form = None
    /\ final_result = None
    /\ pdf_links = <<>>
    /\ pdf_bytes = ""
    /\ temp_files = <<>>
    /\ print_calls = 0
    /\ print_success = FALSE
    /\ tmp = {}
    /\ tasks = <<>>
    /\ access_token = NoAttr
    /\ token_expiry = NoExpiry
    /\ now = 0
    /\ exchanges = 0
    /\ call = NoCall

Next ==
    \/ Begin
    \/ FetchInitialForm
    \/ RefetchInitialForm
    \/ DownloadCaptcha
    \/ GetAccessToken
    \/ SolveCaptcha
    \/ SubmitAuthentication
    \/ SubmitDetails
    \/ SubmitFinal
    \/ DownloadDocument
    \/ DownloadTestDocument
    \/ PrintDocument
    \/ CloseClient
    \/ EmitError
    \/ EmitTraceback

Spec == Init /\ [][Next]_vars

(***************************************************************************)
(* The run whose consumer disconnects: Starlette iterates event_generator   *)
(* for the StreamingResponse; when the client goes away the iteration       *)
(* stops, and the generator is closed at the point where it is suspended    *)
(***************************************************************************)
\* the awaited call a position of the run belongs to; download_and_solve_captcha
\* (app.py 437) is one call that fetches the image, gets the token and calls the OCR
StageOf(p) ==
    CASE p \in {"captcha_get", "token", "vision"} -> "solve"
      [] p \in {"aexit", "handler", "traceback"} -> "cleanup"
      [] OTHER -> p

\* the mutant: the workflow is driven to its end whether or not anybody consumes
MayRunDetached == TRUE

\* app.py 745-767: the workflow advances only while the response iterates the
\* generator.  With the consumer gone, the call that was in flight may still
\* return and the exit of the `async with` still runs; no later call is reached
MayRun ==
    IF consumer.gone THEN StageOf(pc) \in {"cleanup", consumer.stage} ELSE TRUE

\* the client disconnects while the generator is suspended at a yield (no call in
\* flight) or while it awaits the call of the current position
Disconnect ==
    /\ ~consumer.gone
    /\ pc \notin {"start", "done"}
    /\ \E inflight \in BOOLEAN :
          consumer' = [gone |-> TRUE,
                       stage |-> IF inflight THEN StageOf(pc) ELSE "none",
                       requests |-> Len(requests), solve_calls |-> solve_calls,
                       exchanges |-> exchanges, ocr |-> Len(ocr),
                       print_calls |-> print_calls]
    /\ UNCHANGED <<pc, events, exc, cause, dry_run, auto_print, portal, server, client, closes,
                   requests, loopVars, stageVars, printVars, tokenVars, call>>

GeneratorExit == "GeneratorExit"

\* the generator is closed where it is suspended: GeneratorExit (or the
\* cancellation of an awaited call) leaves the `async with`, whose __aexit__ closes
\* the client (app.py 409, main.py 54-57); it is no Exception, so neither app.py 520
\* nor app.py 751 catches it
CloseGenerator ==
    /\ consumer.gone
    /\ StageOf(pc) \notin {"start", "cleanup", "done"}
    /\ exc' = GeneratorExit
    /\ client' = [client EXCEPT !.state = "closed"]
    /\ closes' = Append(closes, Len(events))
    /\ pc' = "done"
    /\ UNCHANGED <<events, cause, settingVars, requests, loopVars, stageVars, printVars,
                   tokenVars, call>>

NextDisconnect ==
    \/ MayRun /\ Next
    \/ Disconnect
    \/ CloseGenerator

SpecDisconnect == Init /\ [][NextDisconnect]_vars

(***************************************************************************)
(* The form submission driver on its own: submit_dynamic_form applied to   *)
(* forms and update maps drawn from bounded sets                           *)
(***************************************************************************)
ElemPool ==
    { Elem("input", name, value, "hidden") :
        name \in {"TokenKey", "permitCount", "requestType", NoAttr},
        value \in {NoAttr, "v"} }

RECURSIVE SeqsUpTo(_, _)
SeqsUpTo(S, n) ==
    IF n = 0 THEN {<<>>}
    ELSE LET shorter == SeqsUpTo(S, n - 1)
         IN shorter \cup {Append(q, x) : q \in shorter, x \in S}

UpdateMaps ==
    { DetailsUpdates, FinalUpdates, EmptyMap,
      [n \in {"TokenKey"} |-> "forged"],
      [n \in {"TokenKey", "permitYear"} |-> "x"] }

Idle ==
    /\ pc = "idle"
    /\ events = <<>>
    /\ exc = NoExc
    /\ cause = NoExc
    /\ dry_run = TRUE
    /\ auto_print = FALSE
    /\ portal = "full"
    /\ consumer = Consuming
    /\ server = Serving
    /\ client = [state |-> "none", id |-> 0, cookies |-> {}]
    /\ closes = <<>>
    /\ requests = <<>>
    /\ fetches = 0
    /\ form_data = None
    /\ captcha_attempt = 0
    /\ solve_calls = 0
    /\ ocr = <<>>
    /\ captcha_text = <<>>
    /\ result = None
    /\ next_form = None
    /\ permit_result = None
    /\ confirm_form = None
    /\ final_result = None
    /\ pdf_links = <<>>
    /\ pdf_bytes = ""
    /\ temp_files = <<>>
    /\ print_calls = 0
    /\ print_success = FALSE
    /\ tmp = {}
    /\ tasks = <<>>

idleVars == <<pc, events, exc, cause, settingVars, client, closes, requests, loopVars,
              stageVars, printVars>>

InitSubmit ==
    /\ Idle
    /\ access_token = NoAttr
    /\ token_expiry = NoExpiry
    /\ now = 0
    /\ exchanges = 0
    /\ call = NoCall

\* main.py 377-421 then 442-448: a parsed form, submitted with an update map
CallSubmitDynamicForm ==
    \E elems \in SeqsUpTo(ElemPool, MaxElems), updates \in UpdateMaps :
        LET form == parse_next_form(Page(<<Form(Rel("/pbw/x.doh", ""), "post", elems)>>,
                                         <<>>, <<>>, {}))
        IN call' = [op |-> "submit_dynamic_form", elems |-> elems,
                    form_fields |-> form.form_fields, updates |-> updates,
                    sent |-> DynamicFormData(form.form_fields, updates)]

NextSubmit == CallSubmitDynamicForm /\ UNCHANGED <<idleVars, tokenVars>>

SpecSubmit == InitSubmit /\ [][NextSubmit]_vars

(***************************************************************************)
(* The form snapshot parser on its own: fetch_initial_form's parsing and    *)
(* parse_next_form applied to documents drawn from bounded sets, then the   *)
(* parsed forms handed to submit_form and submit_dynamic_form               *)
(***************************************************************************)
\* elements of a form: fields with and without a name, with an empty name, with
\* names that occur twice, and a button, which is no field
ParseElemPool ==
    { Elem(tag, name, "v", "hidden") :
        tag \in {"input", "select", "button"}, name \in {"TokenKey", "zip", NoAttr, ""} }
      \cup {Elem("textarea", "note", NoAttr, NoAttr)}

\* action attributes: absent, empty, relative with and without a leading slash,
\* absolute
ActionPool ==
    { None, Ref("", "", "", FALSE), Rel("/pbw/next.doh", ""),
      Ref("", "next.doh", "id=1", FALSE), Ref("https://pay.example.org", "/x", "", TRUE) }

\* method attributes
MethodPool == {NoAttr, "post", "get", "Get", "put"}

ImgPool == {<<>>, <<LogoImg>>, <<LogoImg, CaptchaImg(1)>>,
            <<[id |-> "captchaImg", src |-> None]>>}

FormlessPages ==
    { Page(<<>>, imgs, anchors, phrases) :
        imgs \in ImgPool,
        anchors \in {<<>>, <<Anchor(TRUE, <<RelPdfRef>>)>>},
        phrases \in {{}, {"error"}} }

FormPages ==
    { Page(<<Form(action, method, elems)>>, <<LogoImg, CaptchaImg(1)>>, <<>>, {}) :
        action \in ActionPool, method \in MethodPool,
        elems \in SeqsUpTo(ParseElemPool, MaxElems) }
      \cup { Page(<<Form(Rel("/pbw/a.doh", ""), "get", <<e>>), DetailsPage.forms[1]>>,
                   <<>>, <<>>, {}) : e \in ParseElemPool }

ParsePages == FormlessPages \cup FormPages

\* main.py 316-331 on a parsed initial form, up to the request: the request that is
\* dispatched, or the error raised instead
SubmitFormOutcome(form, text) ==
    IF form.form_method = NoAttr THEN [error |-> NoMethod, request |-> None]
    ELSE IF form.form_action = None THEN [error |-> NoUrl, request |-> None]
    ELSE [error |-> NoExc,
          request |-> [method |-> DispatchMethod(form.form_method),
                       url |-> form.form_action,
                       data |-> AuthFormData(form.form_fields, text)]]

\* main.py 442-456 on a parsed form, up to the request
SubmitDynamicOutcome(form, updates) ==
    IF form.form_method = NoAttr THEN [error |-> NoMethod, request |-> None]
    ELSE IF form.form_action = None THEN [error |-> NoUrl, request |-> None]
    ELSE [error |-> NoExc,
          request |-> [method |-> DispatchMethod(form.form_method),
                       url |-> form.form_action,
                       data |-> DynamicFormData(form.form_fields, updates)]]

InitParse ==
    /\ Idle
    /\ access_token = NoAttr
    /\ token_expiry = NoExpiry
    /\ now = 0
    /\ exchanges = 0
    /\ call = NoCall

\* main.py 68-100 and 377-421 on one document
CallParse ==
    /\ call = NoCall
    /\ \E page \in ParsePages :
          call' = [op |-> "parse", page |-> page,
                   initial |-> ParseInitialForm(page),
                   next |-> parse_next_form(page)]
    /\ UNCHANGED <<idleVars, tokenVars>>

\* the parsed forms are submitted: app.py 464-472 and app.py 559-571
CallSubmitParsed ==
    /\ call.op = "parse"
    /\ call' = [op |-> "submit", page |-> call.page,
                initial |-> call.initial, next |-> call.next,
                auth |-> SubmitFormOutcome(call.initial, <<"1", "2", "3", "4", "5">>),
                dynamic |-> SubmitDynamicOutcome(call.next, DetailsUpdates)]
    /\ UNCHANGED <<idleVars, tokenVars>>

\* anchors of a final response: without href, not a javascript: link, javascript:
\* links quoting a rooted path, a path without a leading slash, an absolute URL, a
\* window name before the path, and no document at all
AnchorPool ==
    { [href |-> None], Anchor(FALSE, <<RelPdfRef>>), Anchor(TRUE, <<RelPdfRef>>),
      Anchor(TRUE, <<Ref("", "files/permit.pdf", "", FALSE)>>),
      Anchor(TRUE, <<AbsPdfRef>>), Anchor(TRUE, <<Rel("_blank", ""), RelPdfRef>>),
      Anchor(TRUE, <<Rel("/pbw/help.jsp", "")>>) }

\* app.py 612-629 on the anchors of one document
CallExtractLinks ==
    /\ call = NoCall
    /\ \E anchors \in SeqsUpTo(AnchorPool, MaxElems) :
          call' = [op |-> "extract", anchors |-> anchors,
                   links |-> ExtractPdfLinks(anchors)]
    /\ UNCHANGED <<idleVars, tokenVars>>

NextParse == CallParse \/ CallSubmitParsed \/ CallExtractLinks

SpecParse == InitParse /\ [][NextParse]_vars

(***************************************************************************)
(* The CAPTCHA resolver's credential cache on its own: _get_access_token    *)
(* called again and again on one resolver while the clock advances         *)
(***************************************************************************)
\* the clock advances by 5 or by 50 minutes between calls
ClockSteps == {300, 3000}

CredentialsError == "ValueError: credentials file not configured, not found or invalid"

\* the number of calls of _get_access_token so far
CallsMade == IF call.op = "none" THEN 0 ELSE call.n

InitToken ==
    /\ Idle
    /\ access_token = NoAttr
    /\ token_expiry = NoExpiry
    /\ now = 0
    /\ exchanges = 0
    /\ call = NoCall

Tick ==
    /\ \E d \in ClockSteps :
          /\ now + d <= MaxClock
          /\ now' = now + d
    /\ UNCHANGED <<idleVars, access_token, token_expiry, exchanges, call>>

\* main.py 102-190: hit says that the cached token was returned (line 119); without
\* a hit the credentials are loaded (121-142) and the assertion is exchanged
\* (162-171); a call that raises returns nothing and caches nothing
CallGetAccessToken ==
    /\ CallsMade < MaxCalls
    /\ \E creds_ok \in BOOLEAN, resp \in TokenResponses :
          LET hit == CachedTokenValid(access_token, token_expiry, now)
              exchanged == ~hit /\ creds_ok
              error == IF hit THEN NoExc
                       ELSE IF ~creds_ok THEN CredentialsError
                       ELSE ExchangeError(resp)
              stored == exchanged /\ error = NoExc
              token == IF stored THEN resp.access_token ELSE access_token
          IN /\ exchanges' = IF exchanged THEN exchanges + 1 ELSE exchanges
             /\ access_token' = token
             /\ token_expiry' = IF stored THEN NewExpiry(resp, now) ELSE token_expiry
             /\ call' = [op |-> "_get_access_token",
                         n |-> CallsMade + 1,
                         prev |-> IF call.op = "none" THEN None ELSE call.last,
                         last |-> [at |-> now,
                                   token_before |-> access_token,
                                   expiry_before |-> token_expiry,
                                   hit |-> hit,
                                   exchanged |-> exchanged,
                                   error |-> error,
                                   returned |-> IF error # NoExc THEN NoAttr ELSE token,
                                   fresh |-> IF stored THEN resp.access_token ELSE NoAttr,
                                   exchanges |-> IF exchanged THEN exchanges + 1
                                                 ELSE exchanges]]
    /\ UNCHANGED <<idleVars, now>>

NextToken == Tick \/ CallGetAccessToken

SpecToken == InitToken /\ [][NextToken]_vars

(***************************************************************************)
(* Properties                                                              *)
(***************************************************************************)
Kinds(kind) == {j \in DOMAIN requests : requests[j].kind = kind}
AllInvalid == \A i \in DOMAIN ocr : ~FormatValid(ocr[i])
Ended == pc = "done"
HasEvent(e) == \E i \in DOMAIN events : events[i] = e
HasType(t) == \E i \in DOMAIN events : events[i].type = t

\* C1: a run calls download_and_solve_captcha at most 3 times; while every OCR
\* text so far is format-invalid no authentication request has been sent; after 3
\* format-invalid texts the run has failed with the CAPTCHA-exhausted error, raised
\* at exactly 3 calls, and it ends with an 'error' event and no 'complete' event.
C1_SolveAttemptsBounded ==
    /\ solve_calls <= max_captcha_attempts
    /\ AllInvalid => Kinds("auth") = {}
    /\ (AllInvalid /\ Len(ocr) = max_captcha_attempts) => cause = ExhaustedFormat
    /\ cause = ExhaustedFormat =>
          /\ solve_calls = max_captcha_attempts
          /\ ~FormatValid(ocr[Len(ocr)])
          /\ ~HasType("complete")
          /\ Ended => HasType("error")

C1_Witness == Ended /\ cause = ExhaustedFormat /\ solve_calls = 3 /\ Len(ocr) = 3

IsSolveStatus(e) == e = Status("Solving CAPTCHA")
IsAuthStatus(e) == e = Status("Authenticating")
FirstAuthStatus ==
    CHOOSE i \in DOMAIN events :
        IsAuthStatus(events[i]) /\ \A j \in 1..(i - 1) : ~IsAuthStatus(events[j])
TwoInvalidThenValid ==
    /\ Len(ocr) >= 3
    /\ ~FormatValid(ocr[1])
    /\ ~FormatValid(ocr[2])
    /\ FormatValid(ocr[3])

\* C2: when the OCR texts are invalid, invalid, valid, the 'Authenticating' status is
\* emitted with exactly 3 'Solving CAPTCHA' status events before it, and every
\* authentication request of the run is sent on attempt 3.
C2_ThirdAttemptAuthenticates ==
    TwoInvalidThenValid =>
        /\ \E i \in DOMAIN events : IsAuthStatus(events[i])
        /\ Cardinality({j \in 1..(FirstAuthStatus - 1) : IsSolveStatus(events[j])}) = 3
        /\ \A j \in Kinds("auth") : requests[j].attempt = 3

C2_Witness ==
    /\ TwoInvalidThenValid
    /\ \E j \in Kinds("auth") : requests[j].attempt = 3 /\ requests[j].ok

IsRejection(r) == r.kind = "auth" /\ r.ok /\ CaptchaMarker \in r.resp.phrases
FailedAttempts ==
    Cardinality({i \in DOMAIN ocr : ~FormatValid(ocr[i])})
      + Cardinality({j \in DOMAIN requests : IsRejection(requests[j])})

\* C3: format-invalid texts and server rejections draw on one budget of 3; after a
\* rejection with attempts left the next request is the re-fetch of the initial form
\* and the one after it the captcha image of the next attempt; a rejection on the
\* third attempt is the run's last request and the run fails.
C3_RejectionSharesBudget ==
    /\ FailedAttempts <= max_captcha_attempts
    /\ captcha_attempt <= max_captcha_attempts
    /\ \A j \in DOMAIN requests :
          IsRejection(requests[j]) =>
             IF requests[j].attempt < max_captcha_attempts
             THEN /\ j = Len(requests) => pc = "refetch"
                  /\ j < Len(requests) => requests[j + 1].kind = "initial"
                  /\ j + 1 < Len(requests) =>
                        /\ requests[j + 2].kind = "captcha"
                        /\ requests[j + 2].attempt = requests[j].attempt + 1
             ELSE /\ j = Len(requests)
                  /\ cause = ExhaustedRejected
                  /\ pc \in {"aexit", "handler", "traceback", "done"}

C3_Witness ==
    /\ Ended
    /\ cause = ExhaustedRejected
    /\ \E i \in DOMAIN ocr : ~FormatValid(ocr[i])
    /\ \E j \in DOMAIN requests : IsRejection(requests[j]) /\ requests[j].attempt = 2

StageOrder ==
    <<"Fetching form", "Solving CAPTCHA", "Authenticating", "Processing form",
      "Submitting permit request", "Confirming", "Finalizing", "Downloading PDF",
      "Complete!">>

\* the portal and the OCR have behaved as the end-to-end scenario says, so far
ScenarioSoFar ==
    /\ ~dry_run
    /\ portal = "full"
    /\ \A j \in DOMAIN requests : requests[j].ok
    /\ Len(ocr) = 1 /\ ocr[1] = <<"1", "2", "3", "4", "5">>
    /\ result # None /\ result.html = DetailsPage
    /\ permit_result # None => permit_result.html = ConfirmPage
    /\ final_result # None => final_result.html = OneLinkPage
    /\ exc # CloseError

\* C4: in the end-to-end scenario (initial form with captcha, first captcha accepted,
\* details form and confirmation form with named fields such as TokenKey, one pdf
\* link) the run raises nothing, and it ends with the stage status events in the
\* fixed order and a final 'complete' event.
C4_EndToEnd ==
    ScenarioSoFar =>
        /\ cause = NoExc
        /\ Ended =>
              /\ StatusesOf(events) = StageOrder
              /\ events[Len(events)].type = "complete"
              /\ pdf_bytes \in Documents

\* C5: no event follows a terminal event ('complete' or 'error').
C5_NothingAfterTerminal ==
    \A i \in DOMAIN events : IsTerminal(events[i]) => i = Len(events)

\* C6: a run whose stream has ended has emitted exactly one terminal event.
C6_ExactlyOneTerminal ==
    Ended => Cardinality({i \in DOMAIN events : IsTerminal(events[i])}) = 1

\* C7: the session client is closed exactly once by the end of the run, and before
\* any terminal event is emitted.
C7_ClosedBeforeTerminal ==
    /\ Ended => Len(closes) = 1
    /\ \A i \in DOMAIN events : IsTerminal(events[i]) => (closes # <<>> /\ closes[1] < i)

NamedIn(elems) == {elems[i].name : i \in DOMAIN elems} \ {NoAttr, ""}

\* C8: submit_dynamic_form sends exactly the field names the form defines: an
\* update replaces the value of a field the form defines, a field without an update
\* keeps its parsed value, and an update whose name the form lacks is not sent.
C8_SentNamesAreFormNames ==
    call.op = "submit_dynamic_form" =>
        /\ DOMAIN call.sent = NamedIn(call.elems)
        /\ \A n \in DOMAIN call.updates :
              IF n \in NamedIn(call.elems) THEN call.sent[n] = call.updates[n]
              ELSE n \notin DOMAIN call.sent
        /\ \A n \in NamedIn(call.elems) \ DOMAIN call.updates :
              call.sent[n] = call.form_fields[n].value

C8_Witness ==
    /\ call.op = "submit_dynamic_form"
    /\ \E n \in DOMAIN call.updates : n \notin NamedIn(call.elems)
    /\ \E n \in DOMAIN call.updates : n \in DOMAIN call.sent
    /\ \E n \in DOMAIN call.sent : n \notin DOMAIN call.updates /\ call.sent[n] = "v"

\* C9: the authentication request sends no field name that the parsed initial form
\* does not define.
C9_AuthSendsOnlyFormNames ==
    (requests # <<>> /\ requests[Len(requests)].kind = "auth") =>
        DOMAIN requests[Len(requests)].data \subseteq DOMAIN form_data.form_fields

\* C10: when the final response yields no document link the run fails with the
\* no-document error: no 'complete' event, an 'error' event at its end, no download
\* request, no print call, and the excerpt of the response among the events emitted
\* before the error.
C10_NoLinkFails ==
    (final_result # None /\ pdf_links = <<>>) =>
        /\ cause = NoDocument
        /\ Kinds("download") = {}
        /\ print_calls = 0
        /\ ~HasType("complete")
        /\ HasEvent(SnippetLog(final_result.html))
        /\ Ended => HasType("error")

C10_Witness == Ended /\ cause = NoDocument /\ final_result.html = NoLinkPage

PrintFailed == print_calls > 0 /\ ~print_success

\* C11: once the print capability has been called and has reported failure, the run
\* has emitted a 'complete' event whose message says that the permits were generated
\* but printing failed and whose files list the saved document, and it emits no
\* 'error' event.
C11_PrintFailureDegrades ==
    PrintFailed =>
        /\ \E i \in DOMAIN events :
              /\ events[i].type = "complete"
              /\ events[i].message = "Generated permits but printing failed"
              /\ events[i].files = temp_files
              /\ temp_files # <<>>
        /\ ~HasType("error")

\* the requests that go to the portal (the test document of a dry run does not)
PortalKinds == {"initial", "captcha", "auth", "details", "final", "download"}
FailedPortalRequests ==
    {j \in DOMAIN requests : requests[j].kind \in PortalKinds /\ ~requests[j].ok}

\* C12: a failed portal request (initial fetch, captcha image, authentication,
\* details, final submission, document download) is the last request of its run:
\* the run has raised the HTTP error, emits no 'complete' event and has emitted an
\* 'error' event when it has ended.
C12_FailedRequestIsFatal ==
    \A j \in FailedPortalRequests :
        /\ j = Len(requests)
        /\ cause = HttpError
        /\ pc \in {"aexit", "handler", "traceback", "done"}
        /\ ~HasType("complete")
        /\ Ended => HasType("error")

C12_Witness ==
    /\ Ended
    /\ HasEvent(Error(HttpError))
    /\ \E j \in FailedPortalRequests : requests[j].kind = "download"

FailedRequests == {j \in DOMAIN requests : ~requests[j].ok}

\* C13: an error raised during the run keeps propagating and is the message of an
\* 'error' event when the run has ended, and a run in which a request of a workflow
\* step failed emits no 'complete' event.
C13_ErrorsSurface ==
    /\ cause # NoExc => exc # NoExc
    /\ (Ended /\ exc # NoExc) => HasEvent(Error(exc))
    /\ FailedRequests # {} => ~HasType("complete")

\* the position of a status message in the fixed stage order
StageRank(m) ==
    CASE m = "Fetching form" -> 1
      [] m = "Solving CAPTCHA" -> 2
      [] m = "Authenticating" -> 3
      [] m = "Processing form" -> 4
      [] m = "Submitting permit request" -> 5
      [] m = "Confirming" -> 6
      [] m = "Finalizing" -> 7
      [] m = "Downloading PDF" -> 8
      [] m \in {"Complete!", "Complete"} -> 9
      [] OTHER -> 0

\* the places where the stage of the status events goes down
StageDrops ==
    LET st == StatusesOf(events)
    IN {i \in 1..(Len(st) - 1) : StageRank(st[i + 1]) < StageRank(st[i])}

\* C14: every status event names a stage; the stage of the status events never goes
\* down except from 'Authenticating' back to 'Solving CAPTCHA', which happens at most
\* twice in a run, and after a status of a stage past authentication no status of an
\* earlier stage follows.
C14_StagesMonotone ==
    LET st == StatusesOf(events)
    IN /\ \A i \in DOMAIN st : StageRank(st[i]) > 0
       /\ \A i \in StageDrops : st[i] = "Authenticating" /\ st[i + 1] = "Solving CAPTCHA"
       /\ Cardinality(StageDrops) < max_captcha_attempts
       /\ \A i, j \in DOMAIN st :
             (i < j /\ StageRank(st[i]) > StageRank("Authenticating")) =>
                 StageRank(st[j]) >= StageRank(st[i])

C14_Witness ==
    /\ Cardinality(StageDrops) = 2
    /\ HasEvent(Status("Complete!"))

\* the requests that are sent to the portal's host
ToPortal == {j \in DOMAIN requests : requests[j].url.host = BASE_URL}

\* C15: the run creates one session client and never another; every request goes
\* through it, and a request to the portal carries every cookie that an earlier
\* response of the run has set.
C15_OneSession ==
    /\ client.id <= 1
    /\ \A j \in DOMAIN requests : requests[j].client = 1
    /\ \A j \in ToPortal : \A i \in 1..(j - 1) :
          requests[i].set_cookies \subseteq requests[j].cookies

C15_Witness ==
    /\ Ended
    /\ \E j \in ToPortal :
          /\ requests[j].kind = "download"
          /\ requests[j].cookies =
                {Cookie("JSESSIONID", BASE_URL), Cookie("TS01", BASE_URL)}
    /\ \E j \in ToPortal : requests[j].kind = "captcha" /\ requests[j].cookies # {}

IsTokenCall == call.op = "_get_access_token"
\* the latest call follows a call that left a token in the cache
AfterCachedToken == IsTokenCall /\ call.prev # None /\ call.last.token_before # NoAttr

Parsed == call.op \in {"parse", "submit"}

\* C18: for a document without a form element, parse_next_form and the form part of
\* fetch_initial_form return a null action and an empty field map, and neither
\* raises.
C18_NoFormParsesToNull ==
    (Parsed /\ call.page.forms = <<>>) =>
        /\ call.next.error = NoExc
        /\ call.next.form_action = None
        /\ call.next.form_fields = EmptyMap
        /\ ~call.next.has_form
        /\ call.initial.error = NoExc
        /\ call.initial.form_action = None
        /\ call.initial.form_fields = EmptyMap

C18_Witness ==
    /\ call.op = "parse"
    /\ call.page.forms = <<>>
    /\ call.page.imgs # <<>>
    /\ call.page.anchors # <<>>
    /\ call.initial.captcha_url # None
    /\ call.next.form_fields = EmptyMap

\* the first form of the parsed document
ParsedForm == call.page.forms[1]
\* the positions of its input, select and textarea elements that carry a name
NamedFields ==
    {i \in DOMAIN ParsedForm.elems :
        /\ ParsedForm.elems[i].tag \in {"input", "select", "textarea"}
        /\ ParsedForm.elems[i].name \notin {NoAttr, ""}}
NamesOfFields == {ParsedForm.elems[i].name : i \in NamedFields}
\* the action attribute is a relative reference that is not empty
RelativeAction ==
    /\ ParsedForm.action # None
    /\ ParsedForm.action.host = ""
    /\ ParsedForm.action.path # ""
UnderPortalBase(url) == IsAbsolute(url) /\ url.host = BASE_URL

\* C19 as stated: for a document with a form, the parsed field map has as many
\* entries as the form has named input, select and textarea elements, also when two
\* of them share a name, and a relative action is parsed to an absolute URL under
\* the portal base.
C19_FieldCountIsElementCount ==
    (Parsed /\ call.page.forms # <<>>) =>
        /\ Cardinality(DOMAIN call.next.form_fields) = Cardinality(NamedFields)
        /\ RelativeAction => UnderPortalBase(call.next.form_action)

\* C19 as amended: the parsed field map has one entry per distinct name of the form's
\* named input, select and textarea elements, with the value of the last element of
\* that name, and a relative action is parsed to an absolute URL under the portal
\* base, with the path and query of the attribute.
C19_FieldCountIsNameCount ==
    (Parsed /\ call.page.forms # <<>>) =>
        /\ DOMAIN call.next.form_fields = NamesOfFields
        /\ DOMAIN call.initial.form_fields = NamesOfFields
        /\ Cardinality(DOMAIN call.next.form_fields) = Cardinality(NamesOfFields)
        /\ \A i \in NamedFields :
              (\A j \in NamedFields : ParsedForm.elems[j].name = ParsedForm.elems[i].name
                                         => j <= i) =>
                 call.next.form_fields[ParsedForm.elems[i].name].value
                    = Get(ParsedForm.elems[i].value, "")
        /\ RelativeAction =>
              /\ UnderPortalBase(call.next.form_action)
              /\ call.next.form_action.path = ParsedForm.action.path
              /\ call.next.form_action.q = ParsedForm.action.q

C19_Witness ==
    /\ call.op = "parse"
    /\ call.page.forms # <<>>
    /\ Cardinality(NamedFields) = 2
    /\ NamesOfFields = {"zip"}
    /\ \E i \in NamedFields : ParsedForm.elems[i].tag = "select"
    /\ ParsedForm.action = Ref("", "next.doh", "id=1", FALSE)
    /\ DOMAIN call.next.form_fields = {"zip"}

\* C20: a parsed form without a method attribute has method POST, a method attribute
\* is parsed to its upper-cased value, and for a form whose parsed method is neither
\* GET nor POST the submission raises an error and dispatches no request.
C20_MethodValidated ==
    (call.op = "submit" /\ call.page.forms # <<>>) =>
        /\ ParsedForm.method = NoAttr =>
              call.next.form_method = "POST" /\ call.initial.form_method = "POST"
        /\ ParsedForm.method \in {"get", "Get"} => call.next.form_method = "GET"
        /\ call.next.form_method \notin {"GET", "POST"} =>
              /\ call.dynamic.request = None
              /\ call.dynamic.error # NoExc
              /\ call.auth.request = None
              /\ call.auth.error # NoExc

\* the javascript: anchors of the extraction call that quote a document reference
QuotingAnchors ==
    {i \in DOMAIN call.anchors :
        /\ call.anchors[i].href # None
        /\ call.anchors[i].href.js
        /\ \E k \in DOMAIN call.anchors[i].href.args :
              MentionsPdf(call.anchors[i].href.args[k])}

\* C21: every extracted link is an absolute URL; a document with one javascript:
\* anchor that quotes one reference with the pdf marker yields one link, which is the
\* reference itself when it is absolute and the reference resolved against the
\* portal base when it is a relative path.
C21_LinkResolvedAgainstBase ==
    call.op = "extract" =>
        /\ Len(call.links) = Cardinality(QuotingAnchors)
        /\ \A i \in DOMAIN call.links : IsAbsolute(call.links[i])
        /\ (Len(call.anchors) = 1 /\ QuotingAnchors = {1}
              /\ Len(call.anchors[1].href.args) = 1) =>
              LET quoted == call.anchors[1].href.args[1]
              IN call.links = <<IF quoted.host # "" THEN quoted
                                ELSE urljoin(BASE_URL, quoted)>>

\* the calls the stage in flight at the disconnect may still issue
InFlight(stage) == IF consumer.stage = stage THEN 1 ELSE 0
RequestKindsOf(stage) ==
    CASE stage \in {"fetch", "refetch"} -> {"initial"}
      [] stage = "solve" -> {"captcha"}
      [] stage = "dry_get" -> {"testpdf"}
      [] stage \in {"auth", "details", "final", "download"} -> {stage}
      [] OTHER -> {}

runVars == <<pc, events, exc, cause, settingVars, client, closes, requests, loopVars,
             stageVars, pdf_bytes, temp_files, print_calls, print_success, tokenVars, call>>

\* a coroutine that awaits a task is suspended until the task has finished
Runnable == \A i \in DOMAIN tasks : tasks[i].awaited => tasks[i].state # "sleeping"

\* app.py 358-365: the body of cleanup() once its sleep is over; an error of
\* os.path.exists or os.unlink is swallowed by `except Exception: pass`
RunCleanup ==
    /\ \E i \in DOMAIN tasks, raises \in BOOLEAN :
        /\ tasks[i].state = "sleeping"
        /\ tasks' = [tasks EXCEPT ![i].state = IF raises THEN "failed" ELSE "done",
                                  ![i].during = pc]
        /\ tmp' = IF ~raises /\ tasks[i].path \in tmp THEN tmp \ {tasks[i].path} ELSE tmp
    /\ UNCHANGED runVars

\* the environment: a file of /tmp is removed by something other than the run
RemoveTempFile ==
    /\ \E f \in tmp : tmp' = tmp \ {f}
    /\ UNCHANGED <<runVars, tasks>>

NextCleanup ==
    \/ Runnable /\ Next
    \/ RunCleanup
    \/ RemoveTempFile

SpecCleanup == Init /\ [][NextCleanup]_vars

\* the run can take its next step whatever the state of its cleanup tasks
CleanupNotAwaited == pc # "done" => ENABLED (Runnable /\ Next)

\* a step of a cleanup task, failed or not, leaves the run as it was
CleanupSilent ==
    (tasks' # tasks /\ Len(tasks') = Len(tasks)) =>
        UNCHANGED <<pc, events, exc, cause, temp_files, print_calls, print_success>>

\* C23: the cleanup task scheduled when a document is saved is never awaited: the
\* run goes on to the print dispatch and to its terminal event while the task
\* sleeps; and a step of the task, a failed one included, emits no event and
\* changes nothing of the run's outcome
C23_CleanupDetached == [](CleanupNotAwaited) /\ [][CleanupSilent]_vars

\* C23 witness: a run completed with its terminal event although its cleanup task
\* failed, on a file already gone, while the print dispatch was still pending
C23_Witness ==
    /\ pc = "done"
    /\ events # <<>> /\ events[Len(events)].type = "complete"
    /\ print_calls = 1
    /\ \E i \in DOMAIN tasks :
        /\ tasks[i].state = "failed"
        /\ tasks[i].during = "print"
        /\ tasks[i].path \notin tmp

(***************************************************************************)
(* Two /stream requests served at once by one process: each call of         *)
(* generate_permits_stream is a coroutine of its own, and the event loop    *)
(* switches between the two at their awaits.  The objects of the process    *)
(* (automation instances, HTTP clients) are kept in `server`, and a run     *)
(* holds a reference to the automation it works with.  The clock is left    *)
(* out: a credential, once cached, stays valid for the run.                 *)
(***************************************************************************)

RunIds == {1, 2}

\* the session the portal opens for a client that sends no session cookie
SessionCookie(r) == [name |-> "JSESSIONID", domain |-> BASE_URL, value |-> r]

\* the credential the token endpoint issues for an exchange
IssuedToken(r) == "ya29.run" \o ToString(r)

\* the mutant: one automation object for the whole process
SharedAutomation(s, r) ==
    IF s.automations # <<>> THEN s
    ELSE [s EXCEPT !.automations = Append(@, [client |-> 0, access_token |-> NoAttr,
                                               creator |-> r])]

\* app.py 409 with main.py 26-40: SantaMonicaPermitAutomation() is a new object
\* with no client and no cached credential
NewAutomation(s, r) ==
    [s EXCEPT !.automations = Append(@, [client |-> 0, access_token |-> NoAttr,
                                          creator |-> r])]

\* main.py 42-52: self.client = httpx.AsyncClient(cookies=httpx.Cookies(), ...)
AEnter(s, a, r) ==
    [s EXCEPT !.clients = Append(@, [state |-> "open", cookies |-> {}, creator |-> r]),
              !.automations[a].client = Len(s.clients) + 1]

\* the client and the credential a run reaches through its automation
ClientOf(s, r) == s.automations[s.run[r].automation].client
TokenOf(s, r) == s.automations[s.run[r].automation].access_token

\* a request of run r as it leaves the process: through self.client with the jar's
\* cookies (main.py 64, 284, 327, 452), or through a client of its own (one_off)
Sent(s, r, kind, one_off) ==
    [kind |-> kind, attempt |-> s.run[r].attempt,
     client |-> IF one_off THEN 0 ELSE ClientOf(s, r),
     open |-> one_off \/ s.clients[ClientOf(s, r)].state = "open",
     cookies |-> IF one_off THEN {} ELSE s.clients[ClientOf(s, r)].cookies,
     token |-> IF kind = "vision" THEN TokenOf(s, r) ELSE NoAttr]

\* app.py 497-498, 463-472: another attempt if the budget allows, else the run ends
RetryOrEnd(s, r) ==
    IF s.run[r].attempt < max_captcha_attempts
    THEN [s EXCEPT !.run[r].attempt = @ + 1, !.run[r].pc = "fetch"]
    ELSE [s EXCEPT !.run[r].pc = "close"]

\* app.py 409: async with SantaMonicaPermitAutomation() as automation
RunBegin(r) ==
    /\ server.run[r].pc = "start"
    /\ LET s1 == NewAutomation(server, r)
           a == Len(s1.automations)
       IN server' = [AEnter(s1, a, r) EXCEPT !.run[r] =
                        [pc |-> "fetch", automation |-> a, attempt |-> 1, log |-> <<>>]]

\* main.py 59-100: the initial form through self.client; the portal's session cookie
\* lands in the client's jar
RunFetch(r) ==
    /\ server.run[r].pc = "fetch"
    /\ LET c == ClientOf(server, r)
           jar == server.clients[c].cookies
       IN server' = [server EXCEPT
                        !.run[r].log = Append(@, Sent(server, r, "initial", FALSE)),
                        !.clients[c].cookies =
                            IF \E k \in jar : k.name = "JSESSIONID" THEN jar
                            ELSE jar \cup {SessionCookie(r)},
                        !.run[r].pc = "captcha"]

\* main.py 272-291 with 102-190: the image through self.client, then the credential,
\* cached in the automation or exchanged and stored in it
RunCaptcha(r) ==
    /\ server.run[r].pc = "captcha"
    /\ LET a == server.run[r].automation
       IN server' = [server EXCEPT
                        !.run[r].log = Append(@, Sent(server, r, "captcha", FALSE)),
                        !.automations[a].access_token =
                            IF @ # NoAttr THEN @ ELSE IssuedToken(r),
                        !.run[r].pc = "vision"]

\* main.py 192-270 with app.py 441-472: the OCR call with the credential, and the
\* format check of its text
RunVision(r) ==
    /\ server.run[r].pc = "vision"
    /\ \E valid \in BOOLEAN :
        LET s1 == [server EXCEPT !.run[r].log = Append(@, Sent(server, r, "vision", TRUE))]
        IN server' = IF valid THEN [s1 EXCEPT !.run[r].pc = "auth"] ELSE RetryOrEnd(s1, r)

\* main.py 293-338 with app.py 474-498: the authentication request through self.client
RunAuth(r) ==
    /\ server.run[r].pc = "auth"
    /\ \E rejected \in BOOLEAN :
        LET s1 == [server EXCEPT !.run[r].log = Append(@, Sent(server, r, "auth", FALSE))]
        IN server' = IF rejected THEN RetryOrEnd(s1, r) ELSE [s1 EXCEPT !.run[r].pc = "close"]

\* main.py 54-57: the run closes the client of its automation
RunClose(r) ==
    /\ server.run[r].pc = "close"
    /\ server' = [server EXCEPT !.clients[ClientOf(server, r)].state = "closed",
                                !.run[r].pc = "done"]

twoRunVars == <<pc, events, exc, cause, dry_run, auto_print, portal, consumer, client,
                closes, requests, loopVars, stageVars, printVars, tokenVars, call>>

NextTwoRuns ==
    /\ \E r \in RunIds :
        \/ RunBegin(r)
        \/ RunFetch(r)
        \/ RunCaptcha(r)
        \/ RunVision(r)
        \/ RunAuth(r)
        \/ RunClose(r)
    /\ UNCHANGED twoRunVars

SpecTwoRuns == Init /\ [][NextTwoRuns]_vars

Started(r) == server.run[r].pc # "start"

\* C24: of two runs in progress at once, each works with an automation and a session
\* client that it created itself; every request of a run leaves through that client
\* while it is open, carries only cookies of the portal session opened for that run,
\* and every OCR call carries a credential that the run itself obtained
C24_RunsIsolated ==
    \A r \in RunIds : Started(r) =>
        /\ server.automations[server.run[r].automation].creator = r
        /\ server.clients[ClientOf(server, r)].creator = r
        /\ \A i \in DOMAIN server.run[r].log :
            LET q == server.run[r].log[i]
            IN /\ q.client # 0 => server.clients[q.client].creator = r /\ q.open
               /\ \A k \in q.cookies : k.value = r
               /\ q.kind = "vision" => q.token = IssuedToken(r)

\* C24 witness: run 1 is over and its client closed while run 2, begun meanwhile, is
\* in its second attempt with its own session cookie and its cached credential
C24_Witness ==
    /\ server.run[1].pc = "done"
    /\ server.run[2].pc = "auth"
    /\ server.run[2].attempt = 2
    /\ Len(server.run[1].log) > 2
    /\ \E i \in DOMAIN server.run[2].log :
        /\ server.run[2].log[i].cookies = {SessionCookie(2)}
        /\ server.run[2].log[i].attempt = 2
    /\ TokenOf(server, 2) = IssuedToken(2)

(***************************************************************************)
(* The /download endpoint (app.py 770-791) as a function of the requested   *)
(* name and of the files in /tmp                                            *)
(***************************************************************************)

\* str.startswith and str.endswith
startswith(s, p) == Len(s) >= Len(p) /\ SubSeq(s, 1, Len(p)) = p
endswith(s, p) == Len(s) >= Len(p) /\ SubSeq(s, Len(s) - Len(p) + 1, Len(s)) = p

\* str.split('/')
RECURSIVE SplitPath(_)
SplitPath(s) ==
    IF s = "" THEN <<"">>
    ELSE LET rest == SplitPath(SubSeq(s, 2, Len(s)))
         IN IF SubSeq(s, 1, 1) = "/" THEN <<"">> \o rest
            ELSE <<SubSeq(s, 1, 1) \o rest[1]>> \o Tail(rest)

\* the parts of a PurePosixPath: empty and '.' components are dropped, '..' is kept
PathParts(s) == SelectSeq(SplitPath(s), LAMBDA p : p # "" /\ p # ".")

\* the mutant: the requested name is used as it came
PathNameUnsanitized(s) == s

\* app.py 777: Path(filename).name, the final component, '' if there is none
PathName(s) == IF PathParts(s) = <<>> THEN "" ELSE PathParts(s)[Len(PathParts(s))]

\* app.py 777-791
download_permit(filename, files) ==
    LET safe_filename == PathName(filename)
    IN IF ~startswith(safe_filename, "permit_") \/ ~endswith(safe_filename, ".pdf")
       THEN [error |-> "Invalid filename"]
       ELSE IF safe_filename \notin files
       THEN [error |-> "File not found or has expired"]
       ELSE [path |-> "/tmp/" \o safe_filename,
             filename |-> "santa-monica-permit-" \o safe_filename]

\* names a file of /tmp can have
FilePool == {"permit_1_tmp.pdf", "permit_notes.txt", "secret.pdf", "permit_.pdf"}

\* names a request can ask for: plain names, names with directory components,
\* names near the pattern, and names with nothing in them
RequestedNames ==
    FilePool \cup
    { "permit_2_tmp.pdf", "../permit_1_tmp.pdf", "/etc/permit_1_tmp.pdf",
      "permit_x/../secret.pdf", "permit_x/../permit_1_tmp.pdf", "../../etc/passwd",
      "sub/secret.pdf/", "permit_1_tmp.pdf/.", "xpermit_1_tmp.pdf",
      "permit_1_tmp.pdf.txt", "Permit_1_tmp.pdf", "permit_", ".pdf", "..", "/", "" }

\* the environment: a file appears in /tmp
CreateFile ==
    /\ call = NoCall
    /\ \E f \in FilePool \ tmp : tmp' = tmp \cup {f}
    /\ UNCHANGED <<runVars, tasks>>

\* app.py 770-791: one request to /download/{filename}
CallDownload ==
    /\ call = NoCall
    /\ \E filename \in RequestedNames :
        call' = [op |-> "download_permit", filename |-> filename, files |-> tmp,
                 response |-> download_permit(filename, tmp)]
    /\ UNCHANGED <<idleVars, tokenVars>>

NextDownload == CreateFile \/ CallDownload

SpecDownload == Init /\ [][NextDownload]_vars

Served(c) == "path" \in DOMAIN c.response

\* C25: a request is answered with a file exactly when the final component of the
\* requested name starts with 'permit_', ends with '.pdf' and names a file of /tmp,
\* and the file served is that file of /tmp; every other request is answered
\* with an error value
C25_DownloadServesOnlyPermits ==
    call.op = "download_permit" =>
        LET parts == PathParts(call.filename)
            last == IF parts = <<>> THEN "" ELSE parts[Len(parts)]
            ok == /\ startswith(last, "permit_")
                  /\ endswith(last, ".pdf")
                  /\ last \in call.files
        IN /\ Served(call) <=> ok
           /\ Served(call) => /\ call.response.path = "/tmp/" \o last
                              /\ \A i \in 1..Len(last) : SubSeq(last, i, i) # "/"
           /\ ~Served(call) => "error" \in DOMAIN call.response

\* C25 witness: a name whose directory components lead out of /tmp is answered
\* with the file of /tmp that its final component names
C25_Witness ==
    /\ call.op = "download_permit"
    /\ call.filename = "../permit_1_tmp.pdf"
    /\ call.files = {"permit_1_tmp.pdf", "secret.pdf"}
    /\ Served(call)

(***************************************************************************)
(* Events around the network calls                                          *)
(***************************************************************************)

IsRefetch(q) == q.kind = "initial" /\ q.attempt > 0

\* the event that announces the stage of a request
AnnouncedBy(q) ==
    CASE q.kind = "initial" /\ q.attempt = 0 -> Status("Fetching form")
      [] IsRefetch(q) -> Log("Retrying with fresh CAPTCHA...")
      [] q.kind = "captcha" -> Status("Solving CAPTCHA")
      [] q.kind = "auth" -> Status("Authenticating")
      [] q.kind = "details" -> Status("Submitting permit request")
      [] q.kind = "final" -> Status("Finalizing")
      [] q.kind = "download" -> Status("Downloading PDF")
      [] q.kind = "testpdf" -> Log("Downloading permit PDF...")

\* the events that report the outcome of a request's stage
CompletedBy(q) ==
    CASE q.kind = "initial" -> {Log("Form loaded (Status: 200)")}
      [] q.kind = "captcha" -> {Log("CAPTCHA solved"), Log("CAPTCHA format invalid")}
      [] q.kind = "auth" -> {Log("Authentication submitted (Status: 200)"),
                             Log("CAPTCHA rejected by server")}
      [] q.kind = "details" -> {Log("Permit details submitted (Status: 200)")}
      [] q.kind = "final" -> {Log("Final submission complete (Status: 200)")}
      [] q.kind \in {"download", "testpdf"} -> {Log("Downloaded PDF")}

\* the stage of request i went through: its call ended well and, for the solve
\* stage, the OCR of that attempt returned a text
StageSucceeded(i) ==
    /\ requests[i].ok
    /\ requests[i].kind = "captcha" => Len(ocr) >= requests[i].attempt

\* the events emitted between the previous request and request i, and between
\* request i and the next one
EventsBefore(i) ==
    {events[p] : p \in ((IF i = 1 THEN 0 ELSE requests[i - 1].at) + 1)..requests[i].at}
EventsAfter(i) ==
    {events[p] : p \in (requests[i].at + 1)..
                       (IF i = Len(requests) THEN Len(events) ELSE requests[i + 1].at)}

Announced(i) == AnnouncedBy(requests[i]) \in EventsBefore(i)
Completed(i) == StageSucceeded(i) => CompletedBy(requests[i]) \cap EventsAfter(i) # {}

SolveStatuses == {p \in DOMAIN events : events[p] = Status("Solving CAPTCHA")}

AttemptsAnnounced ==
    /\ Cardinality(SolveStatuses) = captcha_attempt
    /\ \A i \in DOMAIN requests :
        IsRefetch(requests[i]) => events[requests[i].at] = Log("Retrying with fresh CAPTCHA...")

\* C26, as stated: every network call, a re-fetch included, is announced before
\* it is made and, when its stage succeeds, followed by a completion event
\* before the next call; each attempt has its solve event and each re-fetch
\* its retry event
C26_EveryCallAnnouncedAndCompleted ==
    /\ \A i \in DOMAIN requests : Announced(i) /\ Completed(i)
    /\ AttemptsAnnounced

\* C26, amended: the same for the calls of the stages; a re-fetch is announced by
\* the retry event and followed by no completion event of its own, but at once
\* by the solve event of the next attempt
C26_StageCallsAnnouncedAndCompleted ==
    /\ \A i \in DOMAIN requests :
        /\ Announced(i)
        /\ ~IsRefetch(requests[i]) => Completed(i)
        /\ IsRefetch(requests[i]) /\ requests[i].ok =>
            /\ events[requests[i].at + 1] =
                   Log("[2/7] Solving CAPTCHA with Google Vision API (attempt)")
            /\ Log("Form loaded (Status: 200)") \notin EventsAfter(i)
    /\ AttemptsAnnounced

\* C26 witness: a run that re-fetched the form after a failed attempt and went on
\* through every stage to its document
C26_Witness ==
    /\ pc = "done"
    /\ \E i \in DOMAIN requests : IsRefetch(requests[i]) /\ requests[i].ok
    /\ \E i \in DOMAIN requests : requests[i].kind = "download" /\ requests[i].ok
    /\ events[Len(events)].type = "complete"

\* exactly 5 ASCII digits
FiveAsciiDigits(text) ==
    /\ Len(text) = CaptchaLen
    /\ \A i \in DOMAIN text : text[i] \in AsciiDigits

\* C27: every authentication request carries captcha text of exactly 5 ASCII
\* digits; an OCR text of any other shape is never sent to the portal
C27_OnlyFiveAsciiDigitsSubmitted ==
    \A i \in DOMAIN requests :
        requests[i].kind = "auth" => FiveAsciiDigits(requests[i].data["captchaSText"])

\* the errors of the OCR call and of the credential exchange (main.py 174-183, 241-270)
SolveFailures ==
    { "Vision API error (HTTP status)", "Vision API error",
      "No text detected in CAPTCHA image", "Invalid response from Vision API",
      "Failed to obtain access token (HTTP {status}): {body}", "Failed to obtain access token: {body}" }

Aborted ==
    /\ cause # NoExc
    /\ exc # NoExc
    /\ pc \in {"aexit", "handler", "traceback", "done"}
    /\ ~HasType("complete")
    /\ Ended => HasType("error")

\* C28: a call of download_and_solve_captcha that ended without a text has aborted
\* the run: the error propagates, no 'complete' event is emitted and an 'error'
\* event is when the run has ended; and after a failure of the OCR call or of the
\* credential exchange the captcha download of that attempt is the run's last
\* request, so the form is not fetched again, whatever attempts remain
C28_SolveFailureNotRetried ==
    /\ (solve_calls > Len(ocr) /\ pc \notin {"token", "vision"}) => Aborted
    /\ cause \in SolveFailures =>
        /\ Aborted
        /\ solve_calls = Len(ocr) + 1
        /\ solve_calls = captcha_attempt
        /\ fetches = captcha_attempt
        /\ requests[Len(requests)].kind = "captcha"
        /\ requests[Len(requests)].attempt = captcha_attempt

\* C28 witness: the OCR call of the second attempt failed and the run ended with
\* that error, one attempt unused
C28_Witness ==
    /\ Ended
    /\ cause = "Vision API error (HTTP status)"
    /\ captcha_attempt = 2
    /\ HasEvent(Error(cause))
    /\ fetches = 2

\* the run has left the loop by its `break` (app.py 487-498)
LeftLoop == HasEvent(Log("Authentication submitted (Status: 200)"))

AuthRequests == {j \in DOMAIN requests : requests[j].kind = "auth"}

\* C29: a run past the CAPTCHA loop has left it by the break: its result is the
\* response to its last authentication request, which ended well, was sent with
\* captcha text that passed the format check and was answered without the
\* rejection marker; the loop is never left without a result, so the error
\* 'Failed to authenticate - no valid response received' is never raised
C29_LoopLeftWithAcceptedResult ==
    /\ cause # NoResult
    /\ exc # NoResult
    /\ (pc \in {"dry_get", "details", "final", "download", "print"} \/ next_form # None)
          => LeftLoop
    /\ LeftLoop =>
        /\ AuthRequests # {}
        /\ LET q == requests[CHOOSE j \in AuthRequests : \A k \in AuthRequests : k <= j]
           IN /\ q.ok
              /\ result = [html |-> q.resp, status |-> 200]
              /\ CaptchaMarker \notin q.resp.phrases
              /\ q.data["captchaSText"] = captcha_text
              /\ Len(captcha_text) = CaptchaLen
              /\ \A i \in DOMAIN captcha_text : captcha_text[i] \in UnicodeDigits
              /\ q.attempt = captcha_attempt

\* C29 witness: a run whose first attempt was rejected and whose second was
\* accepted is past the loop, at the details submission
C29_Witness ==
    /\ pc = "details"
    /\ LeftLoop
    /\ captcha_attempt = 2
    /\ HasEvent(Log("CAPTCHA rejected by server"))
    /\ result # None

InitialRequests == Kinds("initial")

\* the form that the latest fetch before request i returned
FormBefore(i) ==
    ParseInitialForm(InitialPage(portal,
        Cardinality({j \in InitialRequests : j < i /\ requests[j].ok})))

\* the attempts that failed, on the format of the text or on the portal's answer,
\* while another attempt was left
FailedWithBudget ==
    {k \in 1..(max_captcha_attempts - 1) :
        \/ k \in DOMAIN ocr /\ ~FormatValid(ocr[k])
        \/ \E j \in AuthRequests : /\ requests[j].attempt = k
                                   /\ requests[j].ok
                                   /\ CaptchaMarker \in requests[j].resp.phrases}

\* C30: the captcha download of every attempt directly follows a fetch of the
\* initial form and asks for the image of that fetch; the authentication request
\* of the attempt follows that download and takes its action, method and hidden
\* fields from the same fetch; and the run has fetched the form once, plus once
\* for every failed attempt that had budget left (the re-fetch pending excepted),
\* never more than 3 times
C30_AttemptUsesLatestFetch ==
    /\ \A i \in Kinds("captcha") :
        /\ i > 1 /\ requests[i - 1].kind = "initial" /\ requests[i - 1].ok
        /\ requests[i].url = FormBefore(i).captcha_url
    /\ \A i \in AuthRequests :
        /\ i > 1 /\ requests[i - 1].kind \in {"captcha", "initial"}
        /\ requests[i - 1].attempt \in {requests[i].attempt, requests[i].attempt - 1}
        /\ requests[i].url = FormBefore(i).form_action
        /\ requests[i].method = DispatchMethod(FormBefore(i).form_method)
        /\ requests[i].data = AuthFormData(FormBefore(i).form_fields,
                                           ocr[requests[i].attempt])
    /\ pc \notin {"start", "fetch"} =>
          Cardinality(InitialRequests) =
              1 + Cardinality(FailedWithBudget) - (IF pc = "refetch" THEN 1 ELSE 0)
    /\ Cardinality(InitialRequests) <= max_captcha_attempts

\* C30 witness: the third attempt's authentication request was sent after two
\* re-fetches, with the action and the fields of the third page
C30_Witness ==
    /\ Cardinality(InitialRequests) = 3
    /\ \E i \in AuthRequests :
        /\ requests[i].attempt = 3
        /\ requests[i].data = AuthFormData(ParseInitialForm(InitialPage(portal, 3)).form_fields,
                                           captcha_text)
        /\ requests[i].data # AuthFormData(ParseInitialForm(InitialPage(portal, 1)).form_fields,
                                           captcha_text)

\* C31: with a page that has no captcha image the initial fetch goes through: the
\* form is loaded with a null captcha URL and the run enters the loop; the solve
\* step then fails before any request, the run ends with an 'error' event, and
\* neither a captcha download nor an authentication request is ever sent
C31_NoImageFailsAtSolve ==
    (portal = "no_captcha" /\ Kinds("initial") # {} /\ requests[1].ok) =>
        /\ form_data.captcha_url = None
        /\ HasEvent(Log("Form loaded (Status: 200)"))
        /\ HasEvent(Status("Solving CAPTCHA"))
        /\ ~HasEvent(Log("CAPTCHA URL"))
        /\ pc = "captcha_get" \/ (cause = NoUrl /\ Aborted)
        /\ Len(requests) = 1
        /\ captcha_attempt = 1
        /\ AuthRequests = {}

\* C31 witness: such a run has ended with the error of the solve step
C31_Witness ==
    /\ portal = "no_captcha"
    /\ Ended
    /\ requests[1].ok
    /\ HasEvent(Error(NoUrl))
    /\ solve_calls = 1

\* the parsed document had no form
Formless(f) == f # None /\ ~f.has_form

\* C32: when the authentication response has no form, no details, final or
\* download request is ever sent, and when the details response has no form, no
\* final or download request is; the run fails at the submission of that step,
\* emits no 'complete' event and has emitted an 'error' event when it has ended
C32_NoFormEndsRun ==
    /\ Formless(next_form) =>
        /\ Kinds("details") = {} /\ Kinds("final") = {} /\ Kinds("download") = {}
        /\ requests[Len(requests)].kind = "auth"
        /\ confirm_form = None
        /\ pc = "details" \/ (cause = NoMethod /\ Aborted)
    /\ Formless(confirm_form) =>
        /\ Kinds("final") = {} /\ Kinds("download") = {}
        /\ requests[Len(requests)].kind = "details"
        /\ pc = "final" \/ (cause = NoMethod /\ Aborted)

\* C32 witness: a run whose details response had no form has ended with an error
C32_Witness ==
    /\ Formless(confirm_form)
    /\ Ended
    /\ HasEvent(Error(NoMethod))
    /\ Kinds("details") # {}

(***************************************************************************)
(* solve_captcha_with_vision_api (main.py 241-270) as a function of the     *)
(* service's response                                                       *)
(***************************************************************************)

\* responses of the service: those of a run, other statuses, and an image response
\* that carries both annotations and an error object (the service fills in what
\* it could annotate even when it sets the error)
VisionPool ==
    VisionResponses \cup
    { VisionResponse(204, <<>>),
      VisionResponse(500, <<ImageResponse(<<<<"1", "2", "3", "4", "5">>>>, NoAttr)>>),
      VisionResponse(200, <<ImageResponse(<<<<"1", "2", "3", "4", "5">>>>, "quota exceeded")>>),
      VisionResponse(200, <<ImageResponse(<<<<"1", "2">>>>, "bad image data")>>) }

\* main.py 241-270 on one response
CallSolveVision ==
    /\ call = NoCall
    /\ \E resp \in VisionPool :
        call' = [op |-> "solve_captcha_with_vision_api", resp |-> resp,
                 outcome |-> SolveOutcome(resp)]
    /\ UNCHANGED <<idleVars, tokenVars>>

NextVision == CallSolveVision

SpecVision == Init /\ [][NextVision]_vars

Is2xx(status) == status \in 200..299

\* the cases in which the resolve step has to fail
MustFail(resp) ==
    \/ ~Is2xx(resp.status)
    \/ /\ resp.responses # <<>>
       /\ \/ resp.responses[1].error # NoAttr
          \/ resp.responses[1].textAnnotations = <<>>

\* C33: the resolve step fails, with no text, when the response carries an error
\* object, has no text annotation or has a status that is not 2xx (the error then
\* naming the upstream status), and returns a text only in none of these cases
C33_ResolveFailsOnErrorOrEmpty ==
    call.op = "solve_captcha_with_vision_api" =>
        /\ MustFail(call.resp) =>
            /\ ~call.outcome.ok
            /\ call.outcome.text = <<>>
            /\ call.outcome.error # NoExc
        /\ ~Is2xx(call.resp.status) =>
               call.outcome.error = "Vision API error (HTTP status)"
        /\ call.outcome.ok => ~MustFail(call.resp)

\* sub occurs in the text s
Contains(s, sub) ==
    \E i \in 1..(Len(s) - Len(sub) + 1) : SubSeq(s, i, i + Len(sub) - 1) = sub

\* the latest call ran the exchange and the exchange failed
ExchangeFailed(c) == c.exchanged /\ c.error # NoExc

\* a failed exchange leaves the cached token and expiry as they were, and the next
\* call reuses only what was cached before it
FailedExchangeKeepsCache ==
    call.op = "_get_access_token" =>
        /\ ExchangeFailed(call.last) =>
            /\ call.last.returned = NoAttr
            /\ access_token = call.last.token_before
            /\ token_expiry = call.last.expiry_before
        /\ (call.prev # None /\ ExchangeFailed(call.prev)) =>
            /\ call.last.token_before = call.prev.token_before
            /\ call.last.expiry_before = call.prev.expiry_before
            /\ call.last.hit =>
                  CachedTokenValid(call.prev.token_before, call.prev.expiry_before,
                                   call.last.at)

\* C34: an exchange that fails, on a status that is not 2xx or on a body without
\* an access token, ends with an error that carries the upstream status and body,
\* and leaves the cached token and expiry as they were before the call, so that a
\* later call runs the exchange again
C34_FailedExchangeReportsAndKeepsCache ==
    /\ FailedExchangeKeepsCache
    /\ (call.op = "_get_access_token" /\ ExchangeFailed(call.last)) =>
        /\ Contains(call.last.error, "{status}")
        /\ Contains(call.last.error, "{body}")

\* the requests sent after the authentication was accepted
AfterAuth == {j \in DOMAIN requests : LeftLoop /\ \A a \in AuthRequests : a < j}

LastEventIsComplete(files) ==
    /\ events # <<>>
    /\ events[Len(events)] = Complete("Generated permits", files)

\* C35: a dry run sends no details, final or document request to the portal;
\* after the accepted authentication it sends one request at most, the fetch of
\* the test document, and right after that fetch it has emitted the 'complete'
\* event, with the saved file when the fetch went well and no print was pending,
\* and with no file when the fetch failed
C35_DryRunStopsAfterAuthentication ==
    dry_run =>
        /\ Kinds("details") = {} /\ Kinds("final") = {} /\ Kinds("download") = {}
        /\ next_form = None
        /\ \A j \in AfterAuth : requests[j].kind = "testpdf" /\ j = Len(requests)
        /\ \A j \in Kinds("testpdf") :
            /\ LeftLoop
            /\ requests[j].url = TEST_PDF_URL
            /\ cause = NoExc
            /\ requests[j].ok => pc = "print" \/ HasType("complete")
            /\ ~requests[j].ok =>
                /\ temp_files = <<>>
                /\ HasEvent(Complete("Generated permits", <<>>))
                /\ pc = "aexit" => LastEventIsComplete(<<>>)

\* C35 witness: a dry run whose fetch of the test document failed has ended with
\* the 'complete' event and no error
C35_Witness ==
    /\ dry_run
    /\ Ended
    /\ \E j \in Kinds("testpdf") : ~requests[j].ok
    /\ LastEventIsComplete(<<>>)
    /\ exc = NoExc

Documented ==
    {j \in DOMAIN requests : requests[j].kind \in {"download", "testpdf"} /\ requests[j].ok}

\* C36: print_pdf is called at most once in a run, and only with auto_print set,
\* after the document was downloaded and saved (its file written, the 'Saved as'
\* line emitted before the 'Printing to' line); without auto_print it is never
\* called, no print line is emitted and the 'complete' event says 'Generated
\* permits' only
C36_PrintOnceWhenAsked ==
    /\ print_calls <= 1
    /\ (print_calls > 0 \/ pc = "print" \/ HasEvent(Log("Printing to printer"))) =>
        /\ auto_print
        /\ Documented # {}
        /\ pdf_bytes \in Documents
        /\ tasks # <<>>
        /\ \E i, j \in DOMAIN events :
            /\ i < j
            /\ events[i] = Log("Saved as")
            /\ events[j] = Log("Printing to printer")
    /\ ~auto_print =>
        /\ print_calls = 0
        /\ pc # "print"
        /\ \A i \in DOMAIN events :
            events[i].type = "complete" => events[i].message = "Generated permits"

\* C36 witness: a run without auto_print has saved its document and ended with
\* the plain message, and nothing was printed
C36_Witness ==
    /\ ~auto_print
    /\ ~dry_run
    /\ Ended
    /\ tasks # <<>>
    /\ HasEvent(Complete("Generated permits", temp_files))
    /\ print_calls = 0

(***************************************************************************)
(* The cleanup timer against the run: the task created at app.py 366       *)
(* sleeps for CleanupDelay seconds while the run goes on                   *)
(***************************************************************************)

\* app.py 359: the sleep of task i is over
Due(i) == tasks[i].state = "sleeping" /\ now >= tasks[i].due

\* time passes while a task sleeps; no step of the run has a deadline: the
\* generator advances as its consumer reads (app.py 747-755) and subprocess.run
\* is called without a timeout (main.py 481-543)
DelayElapses ==
    /\ \E i \in DOMAIN tasks :
        /\ tasks[i].state = "sleeping"
        /\ now < tasks[i].due
        /\ now' = tasks[i].due
    /\ UNCHANGED <<idleVars, access_token, token_expiry, exchanges, call>>

\* app.py 360-365: the event loop resumes the task once its sleep is over
RunCleanupDue ==
    /\ \A i \in DOMAIN tasks : tasks[i].state = "sleeping" => Due(i)
    /\ RunCleanup

\* app.py 770-791: GET /download/{filename} for the file of a cleanup task
DownloadSaved ==
    /\ call = NoCall
    /\ \E i \in DOMAIN tasks :
        call' = [op |-> "download_permit", filename |-> tasks[i].path, files |-> tmp,
                 response |-> download_permit(tasks[i].path, tmp)]
    /\ UNCHANGED <<idleVars, tokenVars>>

NextExpiry ==
    \/ Next
    \/ DelayElapses
    \/ RunCleanupDue
    \/ DownloadSaved

\* the event loop keeps running: time passes and a task whose sleep is over is
\* resumed
SpecExpiry ==
    /\ Init
    /\ [][NextExpiry]_vars
    /\ WF_vars(DelayElapses)
    /\ WF_vars(RunCleanupDue)

\* names save_and_print_pdf gives its files
TempNames == {TempFile("1"), TempFile("test")}

\* this step emits the run's 'complete' event
CompleteEmitted ==
    /\ Len(events') > Len(events)
    /\ events'[Len(events')].type = "complete"

NamedFilesExist ==
    CompleteEmitted =>
        \A k \in DOMAIN events'[Len(events')].files : events'[Len(events')].files[k] \in tmp'

ExpiredNotServed ==
    (call.op = "download_permit" /\ call.filename \notin call.files) =>
        call.response = [error |-> "File not found or has expired"]

Sleeping(f) == \E i \in DOMAIN tasks : tasks[i].path = f /\ tasks[i].state = "sleeping"

DeletedByTask(f) ==
    /\ f \notin tmp
    /\ \E i \in DOMAIN tasks : tasks[i].path = f /\ tasks[i].state = "done"

\* app.py 364-365: the deletion raised and the exception was swallowed
DeletionFailed(f) == \E i \in DOMAIN tasks : tasks[i].path = f /\ tasks[i].state = "failed"

\* C37: every file a run saves is eventually deleted by its cleanup task (unless
\* the deletion itself raises), whatever becomes of the run; a download request
\* for a file the cleanup has deleted is answered 'File not found or has
\* expired'; and the files named in a 'complete' event exist in /tmp at the step
\* that emits the event
C37_FilesExpireAfterCompletion ==
    /\ [][NamedFilesExist]_vars
    /\ []ExpiredNotServed
    /\ \A f \in TempNames : Sleeping(f) ~> (DeletedByTask(f) \/ DeletionFailed(f))

====
